---- MODULE Spec2Model ----
(***************************************************************************)
(* LinearGraphQLClient (src/jest.integration.config.js, lines 569-932):    *)
(* the operation executor, the 30-minute cache of workflow states and      *)
(* issue labels, the per-team                                              *)
(* "agent" label resolver and the issue-creation operations built on them. *)
(*                                                                         *)
(* JavaScript runs one task at a time and a task gives up control only at  *)
(* an await.  Every action below is the code between two awaits of one     *)
(* asynchronous call: a call's synchronous prefix up to the rawRequest it  *)
(* issues, or the continuation that runs when that request settles.  The   *)
(* remote service handles a request at the step at which its response is   *)
(* delivered.  `await import(...)` of the static query/mutation modules    *)
(* reads no client state and is folded into the step that follows it.      *)
(*                                                                         *)
(* Each specification below exercises one part of the client with one      *)
(* caller making one call after another; the concurrency inside a call     *)
(* (the per-issue resolutions of createIssues) is modelled in full.        *)
(***************************************************************************)
EXTENDS Integers, Sequences, FiniteSets, TLC

VARIABLES
    now,              \* Date.now()
    cache,            \* this.cache: {states?, labels?}
    agentLabelCache,  \* this.agentLabelCache: Map<teamId, Label>
    remoteStates,     \* the workflow-states payload the service would return
    remoteLabels,     \* the issue labels held by the service, in listing order
    nextLabelId,      \* the id the service gives to the next label it creates
    call,             \* per caller: the facade call it has in progress
    res,              \* per caller and issue index: the label resolution in progress
    last,             \* per caller: the settled call it made before, when kept
    this,             \* the LinearGraphQLClient instance whose fields cache and agentLabelCache show
    parked            \* the fields of the other instance

vars == <<now, cache, agentLabelCache, remoteStates, remoteLabels, nextLabelId, call, res, last,
          this, parked>>

----------------------------------------------------------------------------
(* Bounds of the model *)

MaxTicks == 2        \* the clock advances by at most MaxTicks half-windows
MaxVersion == 1      \* the remote workflow states change at most MaxVersion times
MaxLabelId == 3      \* the service creates labels with ids up to MaxLabelId
MaxListLen == 2      \* an issue object is passed again while its labelIds has fewer ids

Tasks == {"a", "b"}
CacheTasks == {"a"}      \* the callers of SpecCache: one call after another
Teams == {"T1", "T2"}
Kinds == {"states", "labels"}
IssueSlots == {1, 2}     \* a batch holds one or two issues

----------------------------------------------------------------------------
(* Program constants *)

labelName == "agent"
cacheExpirationTime == 30 * 60 * 1000

NoEntry == [absent |-> TRUE]       \* an undefined cache slot / a missing Map key
NullLabel == [null |-> TRUE]       \* a null issueLabel in a mutation payload
NoVars == [none |-> TRUE]          \* execute called without variables

HalfWindow == cacheExpirationTime \div 2
TickSteps == {HalfWindow, HalfWindow - 1}

(* What rawRequest can throw: an Error with a message, or some other value. *)
NetworkError == [isError |-> TRUE, message |-> <<"network">>]
ThrownValue == [isError |-> FALSE, message |-> <<"aborted">>]
TransportErrors == {NetworkError, ThrownValue}

----------------------------------------------------------------------------
(* execute: lines 601-615 *)

Request(document, variables) == [doc |-> document, variables |-> variables]

(* A catch that wraps whatever was thrown. *)
executeCatchWrapAll(error) ==
    [isError |-> TRUE, message |-> <<"GraphQL operation failed: ">> \o error.message]

(* catch (error): an Error is replaced by a new Error with the prefixed
   message, anything else is rethrown as it is. *)
executeCatch(error) ==
    IF error.isError
    THEN [isError |-> TRUE, message |-> <<"GraphQL operation failed: ">> \o error.message]
    ELSE error

Pending == [status |-> "pending"]
Resolved(v) == [status |-> "resolved", value |-> v]
Rejected(e) == [status |-> "rejected", error |-> e]

Idle == [op |-> "none", pc |-> "idle"]

(* document.loc?.source.body || '' *)
SourceBody(document) ==
    IF document.loc = NoEntry THEN "" ELSE document.loc.source.body

(* execute called on its own.  A caller is idle when its call record is Idle
   and it has no label resolution running. *)
execute(t, document, variables) ==
    /\ call[t].pc = "idle"
    /\ \A i \in DOMAIN res[t] : res[t][i].pc = "idle"
    /\ call' = [call EXCEPT ![t] =
                  [op |-> "execute", pc |-> "awaitRaw",
                   reqs |-> <<Request(SourceBody(document), variables)>>,
                   response |-> NoEntry, thrown |-> NoEntry, result |-> Pending]]
    /\ UNCHANGED <<now, cache, agentLabelCache, remoteStates, remoteLabels, nextLabelId, res, last, this, parked>>

(* An execute that hands back the whole transport response. *)
executeResumeWhole(t, response) ==
    /\ call[t].pc = "awaitRaw"
    /\ call' = [call EXCEPT ![t].pc = "done", ![t].response = response,
                            ![t].result = Resolved(response)]
    /\ UNCHANGED <<now, cache, agentLabelCache, remoteStates, remoteLabels, nextLabelId, res, last, this, parked>>

(* return response.data *)
executeResume(t, response) ==
    /\ call[t].pc = "awaitRaw"
    /\ call' = [call EXCEPT ![t].pc = "done", ![t].response = response,
                            ![t].result = Resolved(response.data)]
    /\ UNCHANGED <<now, cache, agentLabelCache, remoteStates, remoteLabels, nextLabelId, res, last, this, parked>>

(* rawRequest throws: the catch block decides what execute throws. *)
executeThrow(t, error) ==
    /\ call[t].pc = "awaitRaw"
    /\ call' = [call EXCEPT ![t].pc = "done", ![t].thrown = error,
                            ![t].result = Rejected(executeCatch(error))]
    /\ UNCHANGED <<now, cache, agentLabelCache, remoteStates, remoteLabels, nextLabelId, res, last, this, parked>>

----------------------------------------------------------------------------
(* The Reference-Data Cache: getStates (852-866) and getLabels (874-888) *)

(* The same test with the comparison the wrong way round at the boundary. *)
CacheUsableInclusive(cachedData, forceRefresh, t) ==
    /\ ~forceRefresh
    /\ cachedData # NoEntry
    /\ t - cachedData.timestamp <= cacheExpirationTime

(* The same test with the age taken the wrong way round. *)
CacheUsableReversed(cachedData, forceRefresh, t) ==
    /\ ~forceRefresh
    /\ cachedData # NoEntry
    /\ cachedData.timestamp - t >= cacheExpirationTime

(* if (!forceRefresh && cachedData && now - cachedData.timestamp < this.cacheExpirationTime) *)
CacheUsable(cachedData, forceRefresh, t) ==
    /\ ~forceRefresh
    /\ cachedData # NoEntry
    /\ t - cachedData.timestamp < cacheExpirationTime

(* A store that replaces the whole cache object: the other kind is lost. *)
CacheStoreDropOther(c, kind, data, t) ==
    [k \in DOMAIN c |-> IF k = kind THEN [data |-> data, timestamp |-> t] ELSE NoEntry]

(* this.cache.<kind> = { data, timestamp: now } *)
CacheStore(c, kind, data, t) ==
    [c EXCEPT ![kind] = [data |-> data, timestamp |-> t]]

QueryOf(kind) ==
    IF kind = "states" THEN "GET_WORKFLOW_STATES_QUERY" ELSE "GET_ISSUE_LABELS_QUERY"

OpOf(kind) == IF kind = "states" THEN "getStates" ELSE "getLabels"

(* The payload the service returns for the kind's query right now. *)
RemoteData(kind) ==
    IF kind = "states" THEN [workflowStates |-> remoteStates]
    ELSE [issueLabels |-> [nodes |-> remoteLabels]]

(* An accessor that sends nothing when another call of the same kind is
   already waiting for its response. *)
GetCallShared(t, kind, forceRefresh) ==
    /\ call[t].pc = "idle"
    /\ \A i \in DOMAIN res[t] : res[t][i].pc = "idle"
    /\ LET cachedData == cache[kind]
           inFlight == \E u \in DOMAIN call :
                          u # t /\ call[u].pc = "await" /\ call[u].op = OpOf(kind)
           c == [op |-> OpOf(kind), pc |-> "await", forceRefresh |-> forceRefresh,
                 now |-> now, prior |-> cachedData, transport |-> "none",
                 reqs |-> <<>>, result |-> Pending]
       IN
         IF CacheUsable(cachedData, forceRefresh, now)
         THEN call' = [call EXCEPT ![t] =
                  [c EXCEPT !.pc = "done", !.result = Resolved(cachedData.data)]]
         ELSE call' = [call EXCEPT ![t] =
                  [c EXCEPT !.transport = "sent",
                            !.reqs = IF inFlight THEN <<>>
                                     ELSE <<Request(QueryOf(kind), NoVars)>>]]
    /\ UNCHANGED <<now, cache, agentLabelCache, remoteStates, remoteLabels, nextLabelId, res, last, this, parked>>

(* The call up to its first await: the cached data, or the query is sent.
   prior keeps the entry the call found, transport what became of its request. *)
GetCall(t, kind, forceRefresh) ==
    /\ call[t].pc = "idle"
    /\ \A i \in DOMAIN res[t] : res[t][i].pc = "idle"
    /\ LET cachedData == cache[kind]
           c == [op |-> OpOf(kind), pc |-> "await", forceRefresh |-> forceRefresh,
                 now |-> now, prior |-> cachedData, transport |-> "none",
                 reqs |-> <<>>, result |-> Pending]
       IN
         IF CacheUsable(cachedData, forceRefresh, now)
         THEN call' = [call EXCEPT ![t] =
                  [c EXCEPT !.pc = "done", !.result = Resolved(cachedData.data)]]
         ELSE call' = [call EXCEPT ![t] =
                  [c EXCEPT !.transport = "sent",
                            !.reqs = <<Request(QueryOf(kind), NoVars)>>]]
    /\ UNCHANGED <<now, cache, agentLabelCache, remoteStates, remoteLabels, nextLabelId, res, last, this, parked>>

(* A refresh that keeps the entry it found instead of replacing it. *)
GetResumeKeepEntry(t, kind) ==
    /\ call[t].pc = "await"
    /\ call[t].op = OpOf(kind)
    /\ LET data == RemoteData(kind) IN
         /\ cache' = IF cache[kind] = NoEntry
                     THEN CacheStore(cache, kind, data, call[t].now) ELSE cache
         /\ call' = [call EXCEPT ![t].pc = "done", ![t].transport = "ok",
                                 ![t].result = Resolved(cache'[kind].data)]
    /\ UNCHANGED <<now, agentLabelCache, remoteStates, remoteLabels, nextLabelId, res, last, this, parked>>

(* The query's response arrives: the entry is replaced, stamped with the
   time read at the start of the call, and the data returned. *)
GetResume(t, kind) ==
    /\ call[t].pc = "await"
    /\ call[t].op = OpOf(kind)
    /\ LET data == RemoteData(kind) IN
         /\ cache' = CacheStore(cache, kind, data, call[t].now)
         /\ call' = [call EXCEPT ![t].pc = "done", ![t].transport = "ok",
                                 ![t].result = Resolved(data)]
    /\ UNCHANGED <<now, agentLabelCache, remoteStates, remoteLabels, nextLabelId, res, last, this, parked>>

(* A failed refresh that falls back on the entry it found, if any. *)
GetThrowServeStale(t, kind, error) ==
    /\ call[t].pc = "await"
    /\ call[t].op = OpOf(kind)
    /\ call' = [call EXCEPT ![t].pc = "done", ![t].transport = "error",
                   ![t].result = IF cache[kind] # NoEntry THEN Resolved(cache[kind].data)
                                 ELSE Rejected(executeCatch(error))]
    /\ UNCHANGED <<now, cache, agentLabelCache, remoteStates, remoteLabels, nextLabelId, res, last, this, parked>>

(* The query fails: execute's catch rethrows and the call rejects. *)
GetThrow(t, kind, error) ==
    /\ call[t].pc = "await"
    /\ call[t].op = OpOf(kind)
    /\ call' = [call EXCEPT ![t].pc = "done", ![t].transport = "error",
                            ![t].result = Rejected(executeCatch(error))]
    /\ UNCHANGED <<now, cache, agentLabelCache, remoteStates, remoteLabels, nextLabelId, res, last, this, parked>>

getStates(t, forceRefresh) == GetCall(t, "states", forceRefresh)
getStatesResume(t) == GetResume(t, "states")
getStatesThrow(t, error) == GetThrow(t, "states", error)

getLabels(t, forceRefresh) == GetCall(t, "labels", forceRefresh)
getLabelsResume(t) == GetResume(t, "labels")
getLabelsThrow(t, error) == GetThrow(t, "labels", error)

(* The caller has taken the settled call's outcome and may call again. *)
Return(t) ==
    /\ call[t].pc = "done"
    /\ \A i \in DOMAIN res[t] : res[t][i].pc \in {"idle", "done"}
    /\ call' = [call EXCEPT ![t] = Idle]
    /\ res' = [res EXCEPT ![t] = [i \in DOMAIN res[t] |-> Idle]]
    /\ UNCHANGED <<now, cache, agentLabelCache, remoteStates, remoteLabels, nextLabelId, last, this, parked>>

(* The same, and the settled call is kept for comparison with the next. *)
ReturnKeep(t) ==
    /\ call[t].pc = "done"
    /\ \A i \in DOMAIN res[t] : res[t][i].pc \in {"idle", "done"}
    /\ last' = [last EXCEPT ![t] = [call |-> call[t], res |-> res[t]]]
    /\ call' = [call EXCEPT ![t] = Idle]
    /\ res' = [res EXCEPT ![t] = [i \in DOMAIN res[t] |-> Idle]]
    /\ UNCHANGED <<now, cache, agentLabelCache, remoteStates, remoteLabels, nextLabelId, this, parked>>

----------------------------------------------------------------------------
(* Two instances of the class *)

Instances == {"A", "B"}
Other(i) == IF i = "A" THEN "B" ELSE "A"

(* The field initialisers (571, 574-577): every instance starts with a Map
   and a cache object of its own, both empty. *)
NewInstance ==
    [cache |-> [k \in Kinds |-> NoEntry], agentLabelCache |-> [team \in Teams |-> NoEntry]]

(* The fields of instance i. *)
InstanceState(i) ==
    IF this = i THEN [cache |-> cache, agentLabelCache |-> agentLabelCache] ELSE parked

(* Two instances that read and write one cache object and one Map. *)
SwitchInstanceShared ==
    /\ this' = Other(this)
    /\ UNCHANGED <<now, cache, agentLabelCache, remoteStates, remoteLabels, nextLabelId,
                   call, res, last, parked>>

(* The next method runs on the other instance: this.cache and
   this.agentLabelCache are now that instance's fields. *)
SwitchInstance ==
    /\ this' = Other(this)
    /\ cache' = parked.cache
    /\ agentLabelCache' = parked.agentLabelCache
    /\ parked' = [cache |-> cache, agentLabelCache |-> agentLabelCache]
    /\ UNCHANGED <<now, remoteStates, remoteLabels, nextLabelId, call, res, last>>

----------------------------------------------------------------------------
(* The environment: the clock and the remote service's own data *)

Tick ==
    /\ \E d \in TickSteps :
         /\ now + d <= MaxTicks * HalfWindow
         /\ now' = now + d
    /\ UNCHANGED <<cache, agentLabelCache, remoteStates, remoteLabels, nextLabelId, call, res, last, this, parked>>

RemoteStatesChange ==
    /\ remoteStates < MaxVersion
    /\ remoteStates' = remoteStates + 1
    /\ UNCHANGED <<now, cache, agentLabelCache, remoteLabels, nextLabelId, call, res, last, this, parked>>

Label(id, name, team) == [id |-> id, name |-> name, team |-> team]

(* Somebody else creates a label named "agent" for a team. *)
RemoteLabelCreate(team) ==
    /\ nextLabelId <= MaxLabelId
    /\ remoteLabels' = Append(remoteLabels, Label(nextLabelId, labelName, team))
    /\ nextLabelId' = nextLabelId + 1
    /\ UNCHANGED <<now, cache, agentLabelCache, remoteStates, call, res, last, this, parked>>

(* Somebody else renames a label named "agent". *)
RemoteLabelRename ==
    /\ \E i \in 1..Len(remoteLabels) :
         /\ remoteLabels[i].name = labelName
         /\ remoteLabels' = [remoteLabels EXCEPT ![i].name = "renamed"]
    /\ UNCHANGED <<now, cache, agentLabelCache, remoteStates, nextLabelId, call, res, last, this, parked>>

RemoveAt(s, i) == SubSeq(s, 1, i - 1) \o SubSeq(s, i + 1, Len(s))

(* Somebody else deletes a label. *)
RemoteLabelDelete ==
    /\ \E i \in 1..Len(remoteLabels) : remoteLabels' = RemoveAt(remoteLabels, i)
    /\ UNCHANGED <<now, cache, agentLabelCache, remoteStates, nextLabelId, call, res, last, this, parked>>

----------------------------------------------------------------------------
(* The Label Resolver: createOrGetAgentLabel (636-664), createIssueLabel (623-626) *)

(* if (cachedLabel): undefined and null are both falsy. *)
Truthy(v) == v # NoEntry /\ v # NullLabel

(* labels.issueLabels.nodes.find((label) => label.name === labelName):
   the first match in listing order, or undefined. *)
FindLabel(nodes) ==
    LET hits == { i \in 1..Len(nodes) : nodes[i].name = labelName } IN
      IF hits = {} THEN NoEntry
      ELSE nodes[CHOOSE i \in hits : \A j \in hits : i <= j]

(* const labelInput = { name: labelName, teamId, description: 'Automation' } *)
LabelInput(teamId) ==
    [name |-> labelName, teamId |-> teamId, description |-> "Automation"]

(* The same, but a label that is found is returned without being memoized. *)
AfterLabelsNoMemo(r, m, labels) ==
    LET label == FindLabel(labels.issueLabels.nodes) IN
      IF label # NoEntry
      THEN [r |-> [r EXCEPT !.pc = "done", !.result = Resolved(label)], m |-> m]
      ELSE [r |-> [r EXCEPT !.pc = "awaitCreate",
                            !.reqs = Append(@, Request("CREATE_ISSUE_LABELS",
                                                       [input |-> LabelInput(r.teamId)]))],
            m |-> m]

(* The resolver once it holds the label list: the label found is memoized
   and returned, or the create-label mutation is sent.  r is the resolver,
   m the Agent-Label Map; the result is both, updated. *)
AfterLabels(r, m, labels) ==
    LET label == FindLabel(labels.issueLabels.nodes) IN
      IF label # NoEntry
      THEN [r |-> [r EXCEPT !.pc = "done", !.result = Resolved(label)],
            m |-> [m EXCEPT ![r.teamId] = label]]
      ELSE [r |-> [r EXCEPT !.pc = "awaitCreate",
                            !.reqs = Append(@, Request("CREATE_ISSUE_LABELS",
                                                       [input |-> LabelInput(r.teamId)]))],
            m |-> m]

(* A resolver that lets getLabels use its cache entry. *)
ResolverNoForce == FALSE

(* const labels = await this.getLabels(true) *)
ResolverForceRefresh == TRUE

(* A resolver that returns the memoized label also when forceRefresh is set. *)
StartResolveInMemoAlways(m, teamId, forceRefresh) ==
    LET cachedLabel == m[teamId]
        r == [pc |-> "awaitLabels", teamId |-> teamId, forceRefresh |-> forceRefresh,
              now |-> now, reqs |-> <<>>, createdLabel |-> NoEntry, result |-> Pending]
    IN
      IF Truthy(cachedLabel)
      THEN [r |-> [r EXCEPT !.pc = "done", !.result = Resolved(cachedLabel)], m |-> m]
      ELSE [r |-> [r EXCEPT !.reqs = <<Request(QueryOf("labels"), NoVars)>>], m |-> m]

(* The resolver up to its first await: the memoized label unless
   forceRefresh, else the label list through getLabels. *)
StartResolveIn(m, teamId, forceRefresh) ==
    LET cachedLabel == m[teamId]
        r == [pc |-> "awaitLabels", teamId |-> teamId, forceRefresh |-> forceRefresh,
              now |-> now, reqs |-> <<>>, createdLabel |-> NoEntry, result |-> Pending]
    IN
      IF ~forceRefresh /\ Truthy(cachedLabel)
      THEN [r |-> [r EXCEPT !.pc = "done", !.result = Resolved(cachedLabel)], m |-> m]
      ELSE IF CacheUsable(cache["labels"], ResolverForceRefresh, now)
      THEN AfterLabels(r, m, cache["labels"].data)
      ELSE [r |-> [r EXCEPT !.reqs = <<Request(QueryOf("labels"), NoVars)>>], m |-> m]

StartResolve(teamId, forceRefresh) == StartResolveIn(agentLabelCache, teamId, forceRefresh)

(* label.id of a null label: a TypeError *)
TypeError == [isError |-> TRUE, message |-> <<"TypeError">>]

----------------------------------------------------------------------------
(* createIssue (672-677), createIssues (686-697): what runs when a label
   resolution of the call settles *)

(* The marker id put in front of the caller's ids. *)
AppendLabelFirst(issue, label) == [issue EXCEPT !.labelIds = <<label.id>> \o @]

(* input.labelIds = [...(input.labelIds ?? []), label.id] *)
AppendLabel(issue, label) == [issue EXCEPT !.labelIds = @ \o <<label.id>>]

createIssueContinue(c, outcome) ==
    IF outcome.status = "rejected"
    THEN [c EXCEPT !.pc = "done", !.result = outcome]
    ELSE IF outcome.value = NullLabel
    THEN [c EXCEPT !.pc = "done", !.result = Rejected(TypeError)]
    ELSE LET input == AppendLabel(c.issues[1], outcome.value) IN
           [c EXCEPT !.issues = <<input>>, !.pc = "awaitMutation",
                     !.reqs = Append(@, Request("CREATE_ISSUE_MUTATION", [input |-> input]))]

(* A callback that writes the first issue whatever issue it was given. *)
createIssuesContinueFirst(c, i, outcome) ==
    IF outcome.status = "rejected" \/ outcome.value = NullLabel
    THEN IF c.pc = "resolving"
         THEN [c EXCEPT !.pc = "done",
                        !.result = IF outcome.status = "rejected" THEN outcome
                                   ELSE Rejected(TypeError)]
         ELSE c
    ELSE [c EXCEPT !.issues[1] = AppendLabel(@, outcome.value)]

(* A fan-in that waits for every callback and ignores the ones that failed. *)
createIssuesContinueSettled(c, i, outcome) ==
    IF outcome.status = "rejected" \/ outcome.value = NullLabel
    THEN c
    ELSE [c EXCEPT !.issues[i] = AppendLabel(@, outcome.value)]

(* One callback of issues.map: its rejection rejects Promise.all (the first
   rejection wins), its success writes the issue's labelIds in place. *)
createIssuesContinue(c, i, outcome) ==
    IF outcome.status = "rejected" \/ outcome.value = NullLabel
    THEN IF c.pc = "resolving"
         THEN [c EXCEPT !.pc = "done",
                        !.result = IF outcome.status = "rejected" THEN outcome
                                   ELSE Rejected(TypeError)]
         ELSE c
    ELSE [c EXCEPT !.issues[i] = AppendLabel(@, outcome.value)]

Continue(c, i, outcome) ==
    CASE c.op = "createOrGetAgentLabel" -> [c EXCEPT !.pc = "done", !.result = outcome]
      [] c.op = "createIssue" -> createIssueContinue(c, outcome)
      [] c.op = "createIssues" -> createIssuesContinue(c, i, outcome)

RECURSIVE ContinueAll(_, _, _)
ContinueAll(c, rs, i) ==
    IF i > Len(c.issues) THEN c
    ELSE ContinueAll(IF rs[i].pc = "done" THEN Continue(c, i, rs[i].result) ELSE c, rs, i + 1)

NewCall(op, issues) ==
    [op |-> op, pc |-> "resolving", issues |-> issues, supplied |-> issues,
     reqs |-> <<>>, response |-> NoEntry, result |-> Pending]

CanCall(t) ==
    /\ call[t].pc = "idle"
    /\ \A i \in DOMAIN res[t] : res[t][i].pc = "idle"

createOrGetAgentLabel(t, teamId, forceRefresh) ==
    /\ CanCall(t)
    /\ LET s == StartResolve(teamId, forceRefresh)
           c == NewCall("createOrGetAgentLabel", <<>>)
       IN /\ res' = [res EXCEPT ![t][1] = s.r]
          /\ agentLabelCache' = s.m
          /\ call' = [call EXCEPT ![t] =
                        IF s.r.pc = "done" THEN Continue(c, 1, s.r.result) ELSE c]
    /\ UNCHANGED <<now, cache, remoteStates, remoteLabels, nextLabelId, last, this, parked>>

createIssue(t, input) ==
    /\ CanCall(t)
    /\ LET s == StartResolve(input.teamId, FALSE)
           c == NewCall("createIssue", <<input>>)
       IN /\ res' = [res EXCEPT ![t][1] = s.r]
          /\ agentLabelCache' = s.m
          /\ call' = [call EXCEPT ![t] =
                        IF s.r.pc = "done" THEN Continue(c, 1, s.r.result) ELSE c]
    /\ UNCHANGED <<now, cache, remoteStates, remoteLabels, nextLabelId, last, this, parked>>

(* issues.map(async (issue) => ...) runs every callback up to its first
   await, one after the other, before anything else happens: all the map
   lookups come first.  rs are the resolvers started so far, m the map. *)
RECURSIVE StartAll(_, _, _, _)
StartAll(issues, i, rs, m) ==
    IF i > Len(issues) THEN [rs |-> rs, m |-> m]
    ELSE LET s == StartResolveIn(m, issues[i].teamId, FALSE) IN
           StartAll(issues, i + 1, [rs EXCEPT ![i] = s.r], s.m)

createIssues(t, issues) ==
    /\ CanCall(t)
    /\ LET s == StartAll(issues, 1, res[t], agentLabelCache) IN
          /\ res' = [res EXCEPT ![t] = s.rs]
          /\ agentLabelCache' = s.m
          /\ call' = [call EXCEPT ![t] = ContinueAll(NewCall("createIssues", issues), s.rs, 1)]
    /\ UNCHANGED <<now, cache, remoteStates, remoteLabels, nextLabelId, last, this, parked>>

(* A fan-in that goes on as soon as one callback has finished. *)
createIssuesSendEarly(t) ==
    /\ call[t].op = "createIssues"
    /\ call[t].pc = "resolving"
    /\ \E i \in 1..Len(call[t].issues) : res[t][i].pc = "done"
    /\ call' = [call EXCEPT ![t].pc = "awaitMutation",
                   ![t].reqs = Append(@, Request("CREATE_BATCH_ISSUES",
                                                 [input |-> [issues |-> call[t].issues]]))]
    /\ UNCHANGED <<now, cache, agentLabelCache, remoteStates, remoteLabels, nextLabelId, res, last, this, parked>>

(* Promise.all has resolved: the one batch mutation is sent. *)
createIssuesSend(t) ==
    /\ call[t].op = "createIssues"
    /\ call[t].pc = "resolving"
    /\ \A i \in 1..Len(call[t].issues) : res[t][i].pc = "done"
    /\ call' = [call EXCEPT ![t].pc = "awaitMutation",
                   ![t].reqs = Append(@, Request("CREATE_BATCH_ISSUES",
                                                 [input |-> [issues |-> call[t].issues]]))]
    /\ UNCHANGED <<now, cache, agentLabelCache, remoteStates, remoteLabels, nextLabelId, res, last, this, parked>>

(* The resolver's label listing arrives: getLabels stores it, then the       *)
(* resolver memoizes the label found or sends the create-label mutation.    *)
labelsResume(t, i) ==
    /\ res[t][i].pc = "awaitLabels"
    /\ LET r == res[t][i]
           labels == RemoteData("labels")
           s == AfterLabels(r, agentLabelCache, labels)
       IN /\ cache' = CacheStore(cache, "labels", labels, r.now)
          /\ agentLabelCache' = s.m
          /\ res' = [res EXCEPT ![t][i] = s.r]
          /\ call' = [call EXCEPT ![t] =
                        IF s.r.pc = "done" THEN Continue(@, i, s.r.result) ELSE @]
    /\ UNCHANGED <<now, remoteStates, remoteLabels, nextLabelId, last, this, parked>>

(* A failed listing that settles the resolver and never reaches the caller. *)
labelsThrowLost(t, i, error) ==
    /\ res[t][i].pc = "awaitLabels"
    /\ res' = [res EXCEPT ![t][i].pc = "done",
                          ![t][i].result = Rejected(executeCatch(error))]
    /\ UNCHANGED <<now, cache, agentLabelCache, remoteStates, remoteLabels, nextLabelId, call, last, this, parked>>

labelsThrow(t, i, error) ==
    /\ res[t][i].pc = "awaitLabels"
    /\ LET outcome == Rejected(executeCatch(error)) IN
         /\ res' = [res EXCEPT ![t][i].pc = "done", ![t][i].result = outcome]
         /\ call' = [call EXCEPT ![t] = Continue(@, i, outcome)]
    /\ UNCHANGED <<now, cache, agentLabelCache, remoteStates, remoteLabels, nextLabelId, last, this, parked>>

(* The created label is returned but not stored in the map. *)
createIssueLabelResumeNoMemo(t, i) ==
    /\ res[t][i].pc = "awaitCreate"
    /\ \E success \in BOOLEAN :
         LET r == res[t][i]
             input == r.reqs[Len(r.reqs)].variables.input
             created == Label(nextLabelId, input.name, input.teamId)
             createdLabel == [issueLabelCreate |->
                                [success |-> success,
                                 issueLabel |-> IF success THEN created ELSE NullLabel]]
             newLabel == createdLabel.issueLabelCreate.issueLabel
         IN /\ success => nextLabelId <= MaxLabelId
            /\ remoteLabels' = IF success THEN Append(remoteLabels, created) ELSE remoteLabels
            /\ nextLabelId' = IF success THEN nextLabelId + 1 ELSE nextLabelId
            /\ res' = [res EXCEPT ![t][i].pc = "done", ![t][i].createdLabel = createdLabel,
                                  ![t][i].result = Resolved(newLabel)]
            /\ call' = [call EXCEPT ![t] = Continue(@, i, Resolved(newLabel))]
    /\ UNCHANGED <<now, cache, agentLabelCache, remoteStates, last, this, parked>>

(* A resolver that keeps the created label in one slot for all teams. *)
createIssueLabelResumeOneSlot(t, i) ==
    /\ res[t][i].pc = "awaitCreate"
    /\ \E success \in BOOLEAN :
         LET r == res[t][i]
             input == r.reqs[Len(r.reqs)].variables.input
             created == Label(nextLabelId, input.name, input.teamId)
             createdLabel == [issueLabelCreate |->
                                [success |-> success,
                                 issueLabel |-> IF success THEN created ELSE NullLabel]]
             newLabel == createdLabel.issueLabelCreate.issueLabel
         IN /\ success => nextLabelId <= MaxLabelId
            /\ remoteLabels' = IF success THEN Append(remoteLabels, created) ELSE remoteLabels
            /\ nextLabelId' = IF success THEN nextLabelId + 1 ELSE nextLabelId
            /\ agentLabelCache' = [team \in DOMAIN agentLabelCache |-> newLabel]
            /\ res' = [res EXCEPT ![t][i].pc = "done", ![t][i].createdLabel = createdLabel,
                                  ![t][i].result = Resolved(newLabel)]
            /\ call' = [call EXCEPT ![t] = Continue(@, i, Resolved(newLabel))]
    /\ UNCHANGED <<now, cache, remoteStates, last, this, parked>>

(* The service's answer to the create-label mutation: the created label,
   or a payload whose success flag is false and that holds no label.  The
   code reads issueLabelCreate.issueLabel without looking at the flag, stores
   it under teamId and returns it. *)
createIssueLabelResume(t, i) ==
    /\ res[t][i].pc = "awaitCreate"
    /\ \E success \in BOOLEAN :
         LET r == res[t][i]
             input == r.reqs[Len(r.reqs)].variables.input
             created == Label(nextLabelId, input.name, input.teamId)
             createdLabel == [issueLabelCreate |->
                                [success |-> success,
                                 issueLabel |-> IF success THEN created ELSE NullLabel]]
             newLabel == createdLabel.issueLabelCreate.issueLabel
         IN /\ success => nextLabelId <= MaxLabelId
            /\ remoteLabels' = IF success THEN Append(remoteLabels, created) ELSE remoteLabels
            /\ nextLabelId' = IF success THEN nextLabelId + 1 ELSE nextLabelId
            /\ agentLabelCache' = [agentLabelCache EXCEPT ![r.teamId] = newLabel]
            /\ res' = [res EXCEPT ![t][i].pc = "done", ![t][i].createdLabel = createdLabel,
                                  ![t][i].result = Resolved(newLabel)]
            /\ call' = [call EXCEPT ![t] = Continue(@, i, Resolved(newLabel))]
    /\ UNCHANGED <<now, cache, remoteStates, last, this, parked>>

createIssueLabelThrow(t, i, error) ==
    /\ res[t][i].pc = "awaitCreate"
    /\ LET outcome == Rejected(executeCatch(error)) IN
         /\ res' = [res EXCEPT ![t][i].pc = "done", ![t][i].result = outcome]
         /\ call' = [call EXCEPT ![t] = Continue(@, i, outcome)]
    /\ UNCHANGED <<now, cache, agentLabelCache, remoteStates, remoteLabels, nextLabelId, last, this, parked>>

(* The payload of a mutation: what matters of it here is its success flag. *)
MutationPayloads == { [success |-> success] : success \in BOOLEAN }

(* A wrapper that throws when the payload's success flag is false. *)
mutationResumeChecked(t) ==
    /\ call[t].pc = "awaitMutation"
    /\ \E data \in MutationPayloads :
         call' = [call EXCEPT ![t].pc = "done", ![t].response = [data |-> data],
                     ![t].result = IF data.success THEN Resolved(data)
                                   ELSE Rejected([isError |-> TRUE,
                                                  message |-> <<"Failed">>])]
    /\ UNCHANGED <<now, cache, agentLabelCache, remoteStates, remoteLabels, nextLabelId, res, last, this, parked>>

(* The mutation of a single-call wrapper settles: `return this.execute(...)`
   hands the payload back as it is. *)
mutationResume(t) ==
    /\ call[t].pc = "awaitMutation"
    /\ \E data \in MutationPayloads :
         call' = [call EXCEPT ![t].pc = "done", ![t].response = [data |-> data],
                                 ![t].result = Resolved(data)]
    /\ UNCHANGED <<now, cache, agentLabelCache, remoteStates, remoteLabels, nextLabelId, res, last, this, parked>>

mutationThrow(t, error) ==
    /\ call[t].pc = "awaitMutation"
    /\ call' = [call EXCEPT ![t].pc = "done", ![t].result = Rejected(executeCatch(error))]
    /\ UNCHANGED <<now, cache, agentLabelCache, remoteStates, remoteLabels, nextLabelId, res, last, this, parked>>

----------------------------------------------------------------------------
(* createProject (705-708), createBatchIssues (716-721),
   createProjectWithIssues (731-756) *)

DirectCall(op, issues, request) ==
    [op |-> op, pc |-> "awaitMutation", issues |-> issues, supplied |-> issues,
     reqs |-> <<request>>, response |-> NoEntry, result |-> Pending]

createProject(t, input) ==
    /\ CanCall(t)
    /\ call' = [call EXCEPT ![t] =
                  DirectCall("createProject", <<>>, Request("CREATE_PROJECT", [input |-> input]))]
    /\ UNCHANGED <<now, cache, agentLabelCache, remoteStates, remoteLabels, nextLabelId, res, last, this, parked>>

(* The issues are sent as they are given. *)
createBatchIssues(t, issues) ==
    /\ CanCall(t)
    /\ call' = [call EXCEPT ![t] =
                  DirectCall("createBatchIssues", issues,
                             Request("CREATE_BATCH_ISSUES", [input |-> [issues |-> issues]]))]
    /\ UNCHANGED <<now, cache, agentLabelCache, remoteStates, remoteLabels, nextLabelId, res, last, this, parked>>

(* updateIssue (765-771), updateIssues (780-783), deleteIssue (928-931) *)
updateIssue(t, id, input) ==
    /\ CanCall(t)
    /\ call' = [call EXCEPT ![t] =
                  DirectCall("updateIssue", <<>>,
                             Request("UPDATE_ISSUES_MUTATION", [id |-> id, input |-> input]))]
    /\ UNCHANGED <<now, cache, agentLabelCache, remoteStates, remoteLabels, nextLabelId, res, last, this, parked>>

updateIssues(t, ids, input) ==
    /\ CanCall(t)
    /\ call' = [call EXCEPT ![t] =
                  DirectCall("updateIssues", <<>>,
                             Request("UPDATE_BATCH_ISSUES_MUTATION",
                                     [ids |-> ids, input |-> input]))]
    /\ UNCHANGED <<now, cache, agentLabelCache, remoteStates, remoteLabels, nextLabelId, res, last, this, parked>>

deleteIssue(t, id) ==
    /\ CanCall(t)
    /\ call' = [call EXCEPT ![t] =
                  DirectCall("deleteIssue", <<>>, Request("DELETE_ISSUES_MUTATION", [id |-> id]))]
    /\ UNCHANGED <<now, cache, agentLabelCache, remoteStates, remoteLabels, nextLabelId, res, last, this, parked>>

(* Up to `await this.createProject(projectInput)`: the create-project
   mutation is sent.  projectResult and issuesResult are the two locals. *)
createProjectWithIssues(t, projectInput, issues) ==
    /\ CanCall(t)
    /\ call' = [call EXCEPT ![t] =
                  [op |-> "createProjectWithIssues", pc |-> "awaitProject",
                   issues |-> issues, supplied |-> issues,
                   reqs |-> <<Request("CREATE_PROJECT", [input |-> projectInput])>>,
                   response |-> NoEntry, projectResult |-> NoEntry,
                   issuesResult |-> NoEntry, result |-> Pending]]
    /\ UNCHANGED <<now, cache, agentLabelCache, remoteStates, remoteLabels, nextLabelId, res, last, this, parked>>

DomainError(message) == [isError |-> TRUE, message |-> <<message>>]

(* A stamping that lets an issue's own projectId win: {projectId, ...issue}. *)
IssuesWithProjectKeep(issues, projectId) ==
    [i \in DOMAIN issues |->
       IF issues[i].projectId # "none" THEN issues[i]
       ELSE [issues[i] EXCEPT !.projectId = projectId]]

(* const issuesWithProject = issues.map((issue) => ({...issue, projectId})) *)
IssuesWithProject(issues, projectId) ==
    [i \in DOMAIN issues |-> [issues[i] EXCEPT !.projectId = projectId]]

(* The same continuation without the test of the success flag: the issues
   are sent, unstamped when no project came back. *)
projectResumeUnchecked(t, projectCreate) ==
    /\ call[t].pc = "awaitProject"
    /\ LET issuesWithProject ==
              IF projectCreate.success
              THEN IssuesWithProject(call[t].issues, projectCreate.project.id)
              ELSE call[t].issues
       IN call' = [call EXCEPT
                     ![t].pc = "awaitBatch",
                     ![t].projectResult = [projectCreate |-> projectCreate],
                     ![t].reqs = Append(@, Request("CREATE_BATCH_ISSUES",
                                             [input |-> [issues |-> issuesWithProject]]))]
    /\ UNCHANGED <<now, cache, agentLabelCache, remoteStates, remoteLabels, nextLabelId, res, last, this, parked>>

(* The create-project payload arrives: a false success flag is thrown as
   'Failed to create project', else the issues are copied with the new
   project's id and sent through createBatchIssues. *)
projectResume(t, projectCreate) ==
    /\ call[t].pc = "awaitProject"
    /\ LET projectResult == [projectCreate |-> projectCreate] IN
         IF ~projectResult.projectCreate.success
         THEN call' = [call EXCEPT
                         ![t].pc = "done",
                         ![t].projectResult = projectResult,
                         ![t].result = Rejected(DomainError("Failed to create project"))]
         ELSE LET issuesWithProject ==
                      IssuesWithProject(call[t].issues, projectResult.projectCreate.project.id)
              IN call' = [call EXCEPT
                            ![t].pc = "awaitBatch",
                            ![t].projectResult = projectResult,
                            ![t].reqs = Append(@, Request("CREATE_BATCH_ISSUES",
                                                    [input |-> [issues |-> issuesWithProject]]))]
    /\ UNCHANGED <<now, cache, agentLabelCache, remoteStates, remoteLabels, nextLabelId, res, last, this, parked>>

(* The batch-create payload arrives: a false success flag is thrown as
   'Failed to create issues', else both payloads are returned. *)
batchResume(t, issueBatchCreate) ==
    /\ call[t].pc = "awaitBatch"
    /\ LET issuesResult == [issueBatchCreate |-> issueBatchCreate] IN
         call' = [call EXCEPT
                    ![t].pc = "done",
                    ![t].issuesResult = issuesResult,
                    ![t].result =
                       IF ~issuesResult.issueBatchCreate.success
                       THEN Rejected(DomainError("Failed to create issues"))
                       ELSE Resolved([projectCreate |-> call[t].projectResult.projectCreate,
                                      issueBatchCreate |-> issuesResult.issueBatchCreate])]
    /\ UNCHANGED <<now, cache, agentLabelCache, remoteStates, remoteLabels, nextLabelId, res, last, this, parked>>

(* A failed request that is sent once more. *)
compositeThrowRetry(t, error) ==
    /\ call[t].pc \in {"awaitProject", "awaitBatch"}
    /\ call' = IF Len(call[t].reqs) < 3
               THEN [call EXCEPT ![t].reqs = Append(@, @[Len(@)])]
               ELSE [call EXCEPT ![t].pc = "done",
                                 ![t].result = Rejected(executeCatch(error))]
    /\ UNCHANGED <<now, cache, agentLabelCache, remoteStates, remoteLabels, nextLabelId, res, last, this, parked>>

(* Either request of createProjectWithIssues fails: execute's error leaves
   the call, which has no catch of its own. *)
compositeThrow(t, error) ==
    /\ call[t].pc \in {"awaitProject", "awaitBatch"}
    /\ call' = [call EXCEPT ![t].pc = "done", ![t].result = Rejected(executeCatch(error))]
    /\ UNCHANGED <<now, cache, agentLabelCache, remoteStates, remoteLabels, nextLabelId, res, last, this, parked>>

----------------------------------------------------------------------------
(* searchIssues (794-834) *)

(* JavaScript values of the search input: undefined, a string, a number, an
   array. *)
Undefined == [undefined |-> TRUE]
Str(s) == [str |-> s]
Num(n) == [num |-> n]
Arr(a) == [arr |-> a]

(* if (v): undefined, '' and 0 are falsy; every array is truthy. *)
ToBoolean(v) ==
    CASE v = Undefined -> FALSE
      [] "str" \in DOMAIN v -> v.str # ""
      [] "num" \in DOMAIN v -> v.num # 0
      [] OTHER -> TRUE

(* typeof v === 'number' *)
IsNumber(v) == "num" \in DOMAIN v

(* const filter = {}: an object is a function from its keys. *)
EmptyObject == [k \in {} |-> Undefined]

(* filter.key = value *)
Put(object, key, value) ==
    [k \in DOMAIN object \cup {key} |-> IF k = key THEN value ELSE object[k]]

(* A filter that tests every field for being defined. *)
SearchFilterDefined(args) ==
    LET f0 == EmptyObject
        f1 == IF args.query # Undefined THEN Put(f0, "search", args.query) ELSE f0
        f2 == IF args.ids # Undefined THEN Put(f1, "id", [in |-> args.ids]) ELSE f1
        f3 == IF args.projectId # Undefined
              THEN Put(f2, "project", [id |-> [eq |-> args.projectId]]) ELSE f2
        f4 == IF args.teamIds # Undefined
              THEN Put(f3, "team", [id |-> [in |-> args.teamIds]]) ELSE f3
        f5 == IF args.assigneeIds # Undefined
              THEN Put(f4, "assignee", [id |-> [in |-> args.assigneeIds]]) ELSE f4
        f6 == IF args.stateIds # Undefined
              THEN Put(f5, "state", [id |-> [in |-> args.stateIds]]) ELSE f5
        f7 == IF args.labelIds # Undefined
              THEN Put(f6, "labels", [id |-> [in |-> args.labelIds]]) ELSE f6
        f8 == IF args.priority # Undefined
              THEN Put(f7, "priority", [eq |-> args.priority]) ELSE f7
    IN f8

(* The filter built by the eight tests of searchIssues, in their order. *)
SearchFilter(args) ==
    LET f0 == EmptyObject
        f1 == IF ToBoolean(args.query) THEN Put(f0, "search", args.query) ELSE f0
        f2 == IF ToBoolean(args.ids) THEN Put(f1, "id", [in |-> args.ids]) ELSE f1
        f3 == IF ToBoolean(args.projectId)
              THEN Put(f2, "project", [id |-> [eq |-> args.projectId]]) ELSE f2
        f4 == IF ToBoolean(args.teamIds)
              THEN Put(f3, "team", [id |-> [in |-> args.teamIds]]) ELSE f3
        f5 == IF ToBoolean(args.assigneeIds)
              THEN Put(f4, "assignee", [id |-> [in |-> args.assigneeIds]]) ELSE f4
        f6 == IF ToBoolean(args.stateIds)
              THEN Put(f5, "state", [id |-> [in |-> args.stateIds]]) ELSE f5
        f7 == IF ToBoolean(args.labelIds)
              THEN Put(f6, "labels", [id |-> [in |-> args.labelIds]]) ELSE f6
        f8 == IF IsNumber(args.priority)
              THEN Put(f7, "priority", [eq |-> args.priority]) ELSE f7
    IN f8

(* A parameter with a default value: the default stands in for undefined. *)
DefaultParam(v, default) == IF v = Undefined THEN default ELSE v

(* The call record of a searchIssues call.  caller and supplied keep who
   called and the pagination values that caller was given. *)
SearchCall(args, first, after, orderBy, caller, supplied) ==
    LET filter == SearchFilter(args)
        variables == [filter |-> filter,
                      first |-> DefaultParam(first, Num(50)),
                      after |-> after,
                      orderBy |-> DefaultParam(orderBy, Str("updatedAt"))]
    IN [op |-> "searchIssues", pc |-> "awaitSearch", args |-> args,
        caller |-> caller, supplied |-> supplied,
        reqs |-> <<Request("SEARCH_ISSUES_QUERY", variables)>>,
        response |-> NoEntry, result |-> Pending]

searchIssues(t, args, first, after, orderBy) ==
    /\ CanCall(t)
    /\ call' = [call EXCEPT ![t] =
                  SearchCall(args, first, after, orderBy, "client",
                             [first |-> first, after |-> after, orderBy |-> orderBy])]
    /\ UNCHANGED <<now, cache, agentLabelCache, remoteStates, remoteLabels, nextLabelId, res, last, this, parked>>

(* a || b *)
JsOr(a, b) == IF ToBoolean(a) THEN a ELSE b

(* IssueHandler.handleSearchIssues up to its await: the call site
   client.searchIssues(args, args.first || 50, args.after,
   args.orderBy || 'updatedAt'). *)
handleSearchIssues(t, args) ==
    /\ CanCall(t)
    /\ call' = [call EXCEPT ![t] =
                  SearchCall(args, JsOr(args.first, Num(50)), args.after,
                             JsOr(args.orderBy, Str("updatedAt")), "handler",
                             [first |-> args.first, after |-> args.after,
                              orderBy |-> args.orderBy])]
    /\ UNCHANGED <<now, cache, agentLabelCache, remoteStates, remoteLabels, nextLabelId, res, last, this, parked>>

(* The search response is returned as it is. *)
searchResume(t, data) ==
    /\ call[t].pc = "awaitSearch"
    /\ call' = [call EXCEPT ![t].pc = "done", ![t].response = [data |-> data],
                            ![t].result = Resolved(data)]
    /\ UNCHANGED <<now, cache, agentLabelCache, remoteStates, remoteLabels, nextLabelId, res, last, this, parked>>

searchThrow(t, error) ==
    /\ call[t].pc = "awaitSearch"
    /\ call' = [call EXCEPT ![t].pc = "done", ![t].result = Rejected(executeCatch(error))]
    /\ UNCHANGED <<now, cache, agentLabelCache, remoteStates, remoteLabels, nextLabelId, res, last, this, parked>>

----------------------------------------------------------------------------
(* Inputs *)

SuppliedLabelIds == {<<>>, <<1>>}
IssueInputs == [teamId : Teams, labelIds : SuppliedLabelIds]
BatchInputs == UNION { [1..n -> IssueInputs] : n \in IssueSlots }

ProjectIssueInputs == [teamId : Teams, labelIds : SuppliedLabelIds, projectId : {"none", "P0"}]
ProjectBatchInputs == UNION { [1..n -> ProjectIssueInputs] : n \in IssueSlots }
ProjectInputs == { [name |-> "Q1", teamIds |-> <<team>>] : team \in Teams }
(* The payloads the service can answer a create-project mutation with. *)
ProjectPayloads ==
    { [success |-> TRUE, project |-> [id |-> id]] : id \in {"P1", "P2"} }
      \cup { [success |-> FALSE, project |-> NoEntry] }
BatchPayloads == { [success |-> b] : b \in BOOLEAN }

(* SearchIssuesInput: every field optional; a string may be empty, a list
   may be empty, a priority may be 0. *)
SearchInputs ==
    [query : {Undefined, Str(""), Str("bug")},
     ids : {Undefined, Arr(<<>>), Arr(<<"I1">>)},
     projectId : {Undefined, Str(""), Str("P1")},
     teamIds : {Undefined, Arr(<<"T1">>)},
     assigneeIds : {Undefined, Arr(<<"U1">>)},
     stateIds : {Undefined, Arr(<<"S1">>)},
     labelIds : {Undefined, Arr(<<"L1">>)},
     priority : {Undefined, Num(0), Num(2)}]
Firsts == {Undefined, Num(10)}
Afters == {Undefined, Str("cursor")}
OrderBys == {Undefined, Str("createdAt")}
(* The input of handleSearchIssues: the same type with its pagination fields;
   first may be 0 and a string may be empty. *)
HandlerSearchInputs ==
    [query : {Undefined, Str("bug")},
     ids : {Undefined},
     projectId : {Undefined},
     teamIds : {Undefined},
     assigneeIds : {Undefined},
     stateIds : {Undefined},
     labelIds : {Undefined},
     priority : {Undefined, Num(2)},
     first : {Undefined, Num(0), Num(10)},
     after : {Undefined, Str("cursor")},
     orderBy : {Undefined, Str(""), Str("createdAt")}]
SearchPayloads == { [issues |-> [nodes |-> nodes]] : nodes \in {<<>>, <<"I1">>} }

(* DocumentNode: with its source location, or without (loc is optional). *)
Documents ==
    { [loc |-> [source |-> [body |-> body]]] : body \in {"query Teams", "mutation IssueDelete"} }
      \cup { [loc |-> NoEntry] }
VariableInputs == {NoVars, [id |-> "I1"]}
(* What rawRequest resolves with: data next to the transport's own fields. *)
RawResponses ==
    [data : {[teams |-> <<"T1">>], [issueDelete |-> [success |-> FALSE]]},
     status : {"200"},
     extensions : {NoEntry, [requestId |-> "r1"]}]

IssueIds == {"I1", "I2"}
UpdateInputs == { [priority |-> priority] : priority \in {2, 4} }

LabelTasks == {"a"}

Init ==
    /\ now = 0
    /\ cache = [k \in Kinds |-> NoEntry]
    /\ agentLabelCache = [team \in Teams |-> NoEntry]
    /\ remoteStates = 0
    /\ remoteLabels = <<Label(1, "bug", "T1")>>
    /\ nextLabelId = 2
    /\ call = [t \in Tasks |-> Idle]
    /\ res = [t \in Tasks |-> [i \in IssueSlots |-> Idle]]
    /\ last = [t \in Tasks |-> NoEntry]
    /\ this = "A"
    /\ parked = NewInstance

NextCache ==
    \/ \E t \in CacheTasks, forceRefresh \in BOOLEAN : getStates(t, forceRefresh)
    \/ \E t \in CacheTasks : getStatesResume(t)
    \/ \E t \in CacheTasks : getStatesThrow(t, NetworkError)
    \/ \E t \in CacheTasks, forceRefresh \in BOOLEAN : getLabels(t, forceRefresh)
    \/ \E t \in CacheTasks : getLabelsResume(t)
    \/ \E t \in CacheTasks : getLabelsThrow(t, NetworkError)
    \/ \E t \in CacheTasks : Return(t)
    \/ Tick
    \/ RemoteStatesChange
    \/ RemoteLabelCreate("T1")

SpecCache == Init /\ [][NextCache]_vars

NextLabel ==
    \/ \E t \in LabelTasks, teamId \in Teams, forceRefresh \in BOOLEAN :
         createOrGetAgentLabel(t, teamId, forceRefresh)
    \/ \E t \in LabelTasks, input \in IssueInputs : createIssue(t, input)
    \/ \E t \in LabelTasks, issues \in BatchInputs : createIssues(t, issues)
    \/ \E t \in LabelTasks : createIssuesSend(t)
    \/ \E t \in LabelTasks, i \in IssueSlots : labelsResume(t, i)
    \/ \E t \in LabelTasks, i \in IssueSlots : labelsThrow(t, i, NetworkError)
    \/ \E t \in LabelTasks, i \in IssueSlots : createIssueLabelResume(t, i)
    \/ \E t \in LabelTasks, i \in IssueSlots : createIssueLabelThrow(t, i, NetworkError)
    \/ \E t \in LabelTasks : mutationResume(t)
    \/ \E t \in LabelTasks : mutationThrow(t, NetworkError)
    \/ \E t \in LabelTasks : Return(t)
    \/ \E team \in Teams : RemoteLabelCreate(team)
    \/ RemoteLabelDelete

SpecLabel == Init /\ [][NextLabel]_vars

(* One caller making one createOrGetAgentLabel call after another. *)
NextLabelSeq ==
    \/ \E t \in LabelTasks, teamId \in Teams, forceRefresh \in BOOLEAN :
         createOrGetAgentLabel(t, teamId, forceRefresh)
    \/ \E t \in LabelTasks : labelsResume(t, 1)
    \/ \E t \in LabelTasks : labelsThrow(t, 1, NetworkError)
    \/ \E t \in LabelTasks : createIssueLabelResume(t, 1)
    \/ \E t \in LabelTasks : createIssueLabelThrow(t, 1, NetworkError)
    \/ \E t \in LabelTasks : ReturnKeep(t)
    \/ \E team \in Teams : RemoteLabelCreate(team)
    \/ RemoteLabelDelete

SpecLabelSeq == Init /\ [][NextLabelSeq]_vars

(* One caller resolving the label of one team while the service's labels
   are created, renamed and deleted by others. *)
NextLabelDrift ==
    \/ \E t \in LabelTasks, forceRefresh \in BOOLEAN :
         createOrGetAgentLabel(t, "T1", forceRefresh)
    \/ \E t \in LabelTasks : labelsResume(t, 1)
    \/ \E t \in LabelTasks : labelsThrow(t, 1, NetworkError)
    \/ \E t \in LabelTasks : createIssueLabelResume(t, 1)
    \/ \E t \in LabelTasks : createIssueLabelThrow(t, 1, NetworkError)
    \/ \E t \in LabelTasks : ReturnKeep(t)
    \/ RemoteLabelCreate("T1")
    \/ RemoteLabelDelete
    \/ RemoteLabelRename

SpecLabelDrift == Init /\ [][NextLabelDrift]_vars

(* One caller making one call after another, of every shape of operation:
   one cached fetch, one resolution, a resolution and a mutation, a fan-out
   of resolutions and a mutation, one mutation, two mutations in a row. *)
NextLive ==
    \/ \E t \in LabelTasks, forceRefresh \in BOOLEAN : getStates(t, forceRefresh)
    \/ \E t \in LabelTasks : getStatesResume(t)
    \/ \E t \in LabelTasks : getStatesThrow(t, NetworkError)
    \/ \E t \in LabelTasks, teamId \in Teams, forceRefresh \in BOOLEAN :
         createOrGetAgentLabel(t, teamId, forceRefresh)
    \/ \E t \in LabelTasks, input \in IssueInputs : createIssue(t, input)
    \/ \E t \in LabelTasks, issues \in BatchInputs : createIssues(t, issues)
    \/ \E t \in LabelTasks : createIssuesSend(t)
    \/ \E t \in LabelTasks, i \in IssueSlots : labelsResume(t, i)
    \/ \E t \in LabelTasks, i \in IssueSlots : labelsThrow(t, i, NetworkError)
    \/ \E t \in LabelTasks, i \in IssueSlots : createIssueLabelResume(t, i)
    \/ \E t \in LabelTasks, i \in IssueSlots : createIssueLabelThrow(t, i, NetworkError)
    \/ \E t \in LabelTasks, id \in IssueIds, input \in UpdateInputs : updateIssue(t, id, input)
    \/ \E t \in LabelTasks : mutationResume(t)
    \/ \E t \in LabelTasks : mutationThrow(t, NetworkError)
    \/ \E t \in LabelTasks, input \in ProjectInputs, issues \in ProjectBatchInputs :
         createProjectWithIssues(t, input, issues)
    \/ \E t \in LabelTasks, projectCreate \in ProjectPayloads : projectResume(t, projectCreate)
    \/ \E t \in LabelTasks, issueBatchCreate \in BatchPayloads : batchResume(t, issueBatchCreate)
    \/ \E t \in LabelTasks : compositeThrow(t, NetworkError)
    \/ \E t \in LabelTasks : Return(t)

(* Every transport call returns or fails in the end, and the continuation
   of a settled Promise.all is run by the event loop. *)
TransportFairness ==
    /\ \A t \in LabelTasks :
         /\ WF_vars(getStatesResume(t) \/ getStatesThrow(t, NetworkError))
         /\ WF_vars(mutationResume(t) \/ mutationThrow(t, NetworkError))
         /\ WF_vars((\E projectCreate \in ProjectPayloads : projectResume(t, projectCreate))
                      \/ (\E issueBatchCreate \in BatchPayloads : batchResume(t, issueBatchCreate))
                      \/ compositeThrow(t, NetworkError))
         /\ WF_vars(createIssuesSend(t))
    /\ \A t \in LabelTasks, i \in IssueSlots :
         /\ WF_vars(labelsResume(t, i) \/ labelsThrow(t, i, NetworkError))
         /\ WF_vars(createIssueLabelResume(t, i) \/ createIssueLabelThrow(t, i, NetworkError))

SpecLive == Init /\ [][NextLive]_vars /\ TransportFairness

(* Issue objects for team T1 whose labelIds are empty or hold the id the
   service gives to the first label it creates. *)
ReuseIssueInputs == [teamId : {"T1"}, labelIds : {<<>>, <<2>>}]
ReuseBatchInputs == UNION { [1..n -> ReuseIssueInputs] : n \in IssueSlots }

(* The ids a caller supplies are ids the service has given out. *)
KnownIds(input) == \A k \in 1..Len(input.labelIds) : input.labelIds[k] < nextLabelId

(* The caller passes the object of its previous createIssue call again:
   input.labelIds is what that call wrote into it. *)
createIssueAgain(t) ==
    /\ last[t] # NoEntry
    /\ last[t].call.op = "createIssue"
    /\ Len(last[t].call.issues[1].labelIds) < MaxListLen
    /\ createIssue(t, last[t].call.issues[1])

(* The same for the array of the previous createIssues call. *)
createIssuesAgain(t) ==
    /\ last[t] # NoEntry
    /\ last[t].call.op = "createIssues"
    /\ \A i \in 1..Len(last[t].call.issues) :
         Len(last[t].call.issues[i].labelIds) < MaxListLen
    /\ createIssues(t, last[t].call.issues)

(* One caller creating issues for one team, with fresh objects and with
   the objects it has passed before. *)
NextReuse ==
    \/ \E t \in LabelTasks, input \in ReuseIssueInputs :
         KnownIds(input) /\ createIssue(t, input)
    \/ \E t \in LabelTasks : createIssueAgain(t)
    \/ \E t \in LabelTasks, issues \in ReuseBatchInputs :
         (\A i \in 1..Len(issues) : KnownIds(issues[i])) /\ createIssues(t, issues)
    \/ \E t \in LabelTasks : createIssuesAgain(t)
    \/ \E t \in LabelTasks : createIssuesSend(t)
    \/ \E t \in LabelTasks, i \in IssueSlots : labelsResume(t, i)
    \/ \E t \in LabelTasks, i \in IssueSlots : createIssueLabelResume(t, i)
    \/ \E t \in LabelTasks : mutationResume(t)
    \/ \E t \in LabelTasks : ReturnKeep(t)
    \/ RemoteLabelCreate("T1")

SpecReuse == Init /\ [][NextReuse]_vars

(* One caller resolving the marker label and then reading the labels
   through the cache, while the clock advances and nobody else touches the
   service's labels. *)
NextAfterResolve ==
    \/ \E t \in LabelTasks, teamId \in Teams, forceRefresh \in BOOLEAN :
         createOrGetAgentLabel(t, teamId, forceRefresh)
    \/ \E t \in LabelTasks : labelsResume(t, 1)
    \/ \E t \in LabelTasks : createIssueLabelResume(t, 1)
    \/ \E t \in LabelTasks : getLabels(t, FALSE)
    \/ \E t \in LabelTasks : getLabelsResume(t)
    \/ \E t \in LabelTasks : ReturnKeep(t)
    \/ Tick

SpecAfterResolve == Init /\ [][NextAfterResolve]_vars

(* Two callers resolving the labels of the two teams at the same time,
   one of them also through a batch of issues. *)
NextTeams ==
    \/ \E t \in Tasks, teamId \in Teams, forceRefresh \in BOOLEAN :
         createOrGetAgentLabel(t, teamId, forceRefresh)
    \/ \E t \in LabelTasks, issues \in BatchInputs : createIssues(t, issues)
    \/ \E t \in LabelTasks : createIssuesSend(t)
    \/ \E t \in Tasks, i \in IssueSlots : labelsResume(t, i)
    \/ \E t \in Tasks, i \in IssueSlots : labelsThrow(t, i, NetworkError)
    \/ \E t \in Tasks, i \in IssueSlots : createIssueLabelResume(t, i)
    \/ \E t \in Tasks, i \in IssueSlots : createIssueLabelThrow(t, i, NetworkError)
    \/ \E t \in LabelTasks : mutationResume(t)
    \/ \E t \in Tasks : Return(t)

SpecTeams == Init /\ [][NextTeams]_vars

(* The instance a caller holds: its calls run on that instance only. *)
InstanceOf(t) == IF t = "a" THEN "A" ELSE "B"

(* Two callers, each with an instance of its own, against one service. *)
NextInstances ==
    \/ \E t \in Tasks, forceRefresh \in BOOLEAN :
         this = InstanceOf(t) /\ getStates(t, forceRefresh)
    \/ \E t \in Tasks : this = InstanceOf(t) /\ getStatesResume(t)
    \/ \E t \in Tasks : this = InstanceOf(t) /\ getLabels(t, FALSE)
    \/ \E t \in Tasks : this = InstanceOf(t) /\ getLabelsResume(t)
    \/ \E t \in Tasks : this = InstanceOf(t) /\ createOrGetAgentLabel(t, "T1", FALSE)
    \/ \E t \in Tasks : this = InstanceOf(t) /\ labelsResume(t, 1)
    \/ \E t \in Tasks : this = InstanceOf(t) /\ createIssueLabelResume(t, 1)
    \/ \E t \in Tasks : this = InstanceOf(t) /\ Return(t)
    \/ SwitchInstance
    \/ RemoteStatesChange

SpecInstances == Init /\ [][NextInstances]_vars

NextProject ==
    \/ \E t \in LabelTasks, input \in ProjectInputs : createProject(t, input)
    \/ \E t \in LabelTasks, issues \in ProjectBatchInputs : createBatchIssues(t, issues)
    \/ \E t \in LabelTasks, input \in ProjectInputs, issues \in ProjectBatchInputs :
         createProjectWithIssues(t, input, issues)
    \/ \E t \in LabelTasks, projectCreate \in ProjectPayloads : projectResume(t, projectCreate)
    \/ \E t \in LabelTasks, issueBatchCreate \in BatchPayloads : batchResume(t, issueBatchCreate)
    \/ \E t \in LabelTasks : compositeThrow(t, NetworkError)
    \/ \E t \in LabelTasks : mutationResume(t)
    \/ \E t \in LabelTasks : mutationThrow(t, NetworkError)
    \/ \E t \in LabelTasks : Return(t)

SpecProject == Init /\ [][NextProject]_vars

(* Two callers of the cache accessors, their calls in flight together; the
   forced calls are the getStates ones. *)
NextRace ==
    \/ \E t \in Tasks, forceRefresh \in BOOLEAN : getStates(t, forceRefresh)
    \/ \E t \in Tasks : getStatesResume(t)
    \/ \E t \in Tasks : getStatesThrow(t, NetworkError)
    \/ \E t \in Tasks : getLabels(t, FALSE)
    \/ \E t \in Tasks : getLabelsResume(t)
    \/ \E t \in Tasks : getLabelsThrow(t, NetworkError)
    \/ \E t \in Tasks : Return(t)
    \/ Tick
    \/ RemoteStatesChange

SpecRace == Init /\ [][NextRace]_vars

(* One caller using both cached kinds and the label resolver, whose
   getLabels(true) writes the labels entry. *)
NextKinds ==
    \/ \E t \in CacheTasks, forceRefresh \in BOOLEAN : getStates(t, forceRefresh)
    \/ \E t \in CacheTasks : getStatesResume(t)
    \/ \E t \in CacheTasks : getStatesThrow(t, NetworkError)
    \/ \E t \in CacheTasks, forceRefresh \in BOOLEAN : getLabels(t, forceRefresh)
    \/ \E t \in CacheTasks : getLabelsResume(t)
    \/ \E t \in CacheTasks : getLabelsThrow(t, NetworkError)
    \/ \E t \in CacheTasks, forceRefresh \in BOOLEAN :
         createOrGetAgentLabel(t, "T1", forceRefresh)
    \/ \E t \in CacheTasks : labelsResume(t, 1)
    \/ \E t \in CacheTasks : labelsThrow(t, 1, NetworkError)
    \/ \E t \in CacheTasks : createIssueLabelResume(t, 1)
    \/ \E t \in CacheTasks : createIssueLabelThrow(t, 1, NetworkError)
    \/ \E t \in CacheTasks : Return(t)
    \/ Tick
    \/ RemoteStatesChange

SpecKinds == Init /\ [][NextKinds]_vars

(* The single-call wrappers and the composite, on a client whose service
   holds no label named "agent" at the start. *)
NextWrappers ==
    \/ \E t \in LabelTasks, input \in IssueInputs : createIssue(t, input)
    \/ \E t \in LabelTasks, issues \in BatchInputs : createIssues(t, issues)
    \/ \E t \in LabelTasks : createIssuesSend(t)
    \/ \E t \in LabelTasks, i \in IssueSlots : labelsResume(t, i)
    \/ \E t \in LabelTasks, i \in IssueSlots : labelsThrow(t, i, NetworkError)
    \/ \E t \in LabelTasks, i \in IssueSlots : createIssueLabelResume(t, i)
    \/ \E t \in LabelTasks, i \in IssueSlots : createIssueLabelThrow(t, i, NetworkError)
    \/ \E t \in LabelTasks, input \in ProjectInputs : createProject(t, input)
    \/ \E t \in LabelTasks, issues \in ProjectBatchInputs : createBatchIssues(t, issues)
    \/ \E t \in LabelTasks, id \in IssueIds, input \in UpdateInputs : updateIssue(t, id, input)
    \/ \E t \in LabelTasks, id \in IssueIds, input \in UpdateInputs :
         updateIssues(t, <<id>>, input)
    \/ \E t \in LabelTasks, id \in IssueIds : deleteIssue(t, id)
    \/ \E t \in LabelTasks, input \in ProjectInputs, issues \in ProjectBatchInputs :
         createProjectWithIssues(t, input, issues)
    \/ \E t \in LabelTasks, projectCreate \in ProjectPayloads : projectResume(t, projectCreate)
    \/ \E t \in LabelTasks, issueBatchCreate \in BatchPayloads : batchResume(t, issueBatchCreate)
    \/ \E t \in LabelTasks : compositeThrow(t, NetworkError)
    \/ \E t \in LabelTasks : mutationResume(t)
    \/ \E t \in LabelTasks : mutationThrow(t, NetworkError)
    \/ \E t \in LabelTasks : Return(t)

SpecWrappers == Init /\ [][NextWrappers]_vars

(* Two callers of execute, their calls in flight together. *)
NextExecute ==
    \/ \E t \in Tasks, document \in Documents, variables \in VariableInputs :
         execute(t, document, variables)
    \/ \E t \in Tasks, response \in RawResponses : executeResume(t, response)
    \/ \E t \in Tasks, error \in TransportErrors : executeThrow(t, error)
    \/ \E t \in Tasks : Return(t)

SpecExecute == Init /\ [][NextExecute]_vars

NextSearch ==
    \/ \E t \in LabelTasks, args \in SearchInputs, first \in Firsts, after \in Afters,
          orderBy \in OrderBys : searchIssues(t, args, first, after, orderBy)
    \/ \E t \in LabelTasks, data \in SearchPayloads : searchResume(t, data)
    \/ \E t \in LabelTasks : searchThrow(t, NetworkError)
    \/ \E t \in LabelTasks : Return(t)

SpecSearch == Init /\ [][NextSearch]_vars

(* Searches made directly and through the handler, over the pagination
   values. *)
NextPaging ==
    \/ \E t \in LabelTasks, args \in HandlerSearchInputs :
         searchIssues(t, args, args.first, args.after, args.orderBy)
    \/ \E t \in LabelTasks, args \in HandlerSearchInputs : handleSearchIssues(t, args)
    \/ \E t \in LabelTasks, data \in SearchPayloads : searchResume(t, data)
    \/ \E t \in LabelTasks : searchThrow(t, NetworkError)
    \/ \E t \in LabelTasks : Return(t)

SpecPaging == Init /\ [][NextPaging]_vars

----------------------------------------------------------------------------
(* The cache accessors, checked under SpecCache *)

GetOps == {"getStates", "getLabels"}
KindOf(op) == IF op = "getStates" THEN "states" ELSE "labels"

(* The step of caller t is the start of a getStates/getLabels call. *)
Calls(t) == call[t].pc = "idle" /\ call'[t].pc # "idle" /\ call'[t].op \in GetOps
(* The step of caller t is the settling of its refresh. *)
Settles(t) == call[t].pc = "await" /\ call[t].op \in GetOps /\ call'[t].pc = "done"

(* C1: a call with forceRefresh=false that finds an entry younger than 30
   minutes sends nothing, returns the entry's data and leaves the cache as
   it was. *)
C1_FreshEntryIsServed ==
    [][\A t \in Tasks :
         Calls(t) =>
           LET k == KindOf(call'[t].op) IN
             (/\ ~call'[t].forceRefresh
              /\ cache[k] # NoEntry
              /\ now - cache[k].timestamp < cacheExpirationTime)
             => /\ call'[t].pc = "done"
                /\ call'[t].reqs = <<>>
                /\ call'[t].result = Resolved(cache[k].data)
                /\ cache' = cache]_vars

(* A non-forced call has been served from an entry that is one millisecond
   short of the window. *)
C1_Witness ==
    \E t \in Tasks :
        /\ call[t].pc = "done" /\ call[t].op \in GetOps
        /\ ~call[t].forceRefresh
        /\ call[t].reqs = <<>>
        /\ call[t].prior # NoEntry
        /\ call[t].now - call[t].prior.timestamp = cacheExpirationTime - 1
        /\ call[t].result = Resolved(call[t].prior.data)

(* C2: a call with forceRefresh=true sends exactly one request whatever the
   entry; when the response arrives the entry becomes {the data received,
   the time the call read} and the data received is returned. *)
C2_ForcedRefreshFetchesOnce ==
    [][\A t \in Tasks :
         /\ (Calls(t) /\ call'[t].forceRefresh)
            => /\ call'[t].pc = "await"
               /\ call'[t].reqs = <<Request(QueryOf(KindOf(call'[t].op)), NoVars)>>
               /\ call'[t].now = now
         /\ (Settles(t) /\ call[t].forceRefresh)
            => LET k == KindOf(call[t].op) IN
                 /\ call'[t].reqs = call[t].reqs
                 /\ Len(call[t].reqs) = 1
                 /\ call'[t].transport = "ok"
                    => /\ cache'[k] = [data |-> RemoteData(k), timestamp |-> call[t].now]
                       /\ call'[t].result = Resolved(RemoteData(k))]_vars

(* A forced call that found a fresh entry has returned data that differs
   from what that entry held. *)
C2_Witness ==
    \E t \in Tasks :
        /\ call[t].pc = "done" /\ call[t].op \in GetOps
        /\ call[t].forceRefresh
        /\ call[t].prior # NoEntry
        /\ call[t].now - call[t].prior.timestamp < cacheExpirationTime
        /\ call[t].result.status = "resolved"
        /\ call[t].result.value # call[t].prior.data
        /\ cache[KindOf(call[t].op)].data = call[t].result.value

(* C3: a non-forced call that finds an entry 30 minutes old or older sends
   exactly one request, and when the response arrives the entry's timestamp
   is the time the call read at its start. *)
C3_ExpiredEntryIsRefreshed ==
    [][\A t \in Tasks :
         /\ Calls(t)
            => LET k == KindOf(call'[t].op) IN
                 (/\ ~call'[t].forceRefresh
                  /\ cache[k] # NoEntry
                  /\ now - cache[k].timestamp >= cacheExpirationTime)
                 => /\ call'[t].pc = "await"
                    /\ call'[t].reqs = <<Request(QueryOf(k), NoVars)>>
                    /\ call'[t].now = now
         /\ (Settles(t) /\ ~call[t].forceRefresh /\ call[t].prior # NoEntry)
            => /\ call'[t].reqs = call[t].reqs
               /\ Len(call[t].reqs) = 1
               /\ call'[t].transport = "ok"
                  => cache'[KindOf(call[t].op)].timestamp = call[t].now]_vars

(* A non-forced call made exactly 30 minutes after the entry's timestamp has
   refreshed the entry. *)
C3_Witness ==
    \E t \in Tasks :
        /\ call[t].pc = "done" /\ call[t].op \in GetOps
        /\ ~call[t].forceRefresh
        /\ call[t].prior # NoEntry
        /\ call[t].now - call[t].prior.timestamp = cacheExpirationTime
        /\ Len(call[t].reqs) = 1
        /\ call[t].result.status = "resolved"
        /\ cache[KindOf(call[t].op)].timestamp = call[t].now

(* C4: when the request of a refresh fails, the call rejects with the error
   execute throws, no data is returned, and the cache is what it was. *)
C4_FailedRefreshKeepsEntry ==
    [][\A t \in Tasks :
         (Settles(t) /\ call'[t].transport = "error")
         => /\ call'[t].result.status = "rejected"
            /\ \E error \in TransportErrors : call'[t].result.error = executeCatch(error)
            /\ cache' = cache]_vars

(* A refresh of an existing entry has failed and the entry is still there. *)
C4_Witness ==
    \E t \in Tasks :
        /\ call[t].pc = "done" /\ call[t].op \in GetOps
        /\ call[t].transport = "error"
        /\ call[t].result.status = "rejected"
        /\ call[t].prior # NoEntry
        /\ cache[KindOf(call[t].op)] = call[t].prior

----------------------------------------------------------------------------
(* The label resolver and the issue-creation operations *)

IsMarker(label) == label.name = "agent"
NoMarkerIn(nodes) == \A j \in 1..Len(nodes) : ~IsMarker(nodes[j])
Holds(nodes, label) == \E j \in 1..Len(nodes) : nodes[j] = label
Sent(reqs, document) == { k \in 1..Len(reqs) : reqs[k].doc = document }
IsLabel(v) == v # NoEntry /\ v # NullLabel

(* C5: a resolution that receives a label list without a label named
   "agent" sends one create-label mutation with input {name: "agent",
   teamId, description: "Automation"}; the label the service creates is
   stored under teamId and is what the call returns.  SpecLabel. *)
C5_AbsentLabelIsCreated ==
    [][\A t \in Tasks, i \in IssueSlots :
         /\ (/\ res[t][i].pc = "awaitLabels"
             /\ res'[t][i].pc # "awaitLabels"
             /\ ~(res'[t][i].pc = "done" /\ res'[t][i].result.status = "rejected")
             /\ NoMarkerIn(remoteLabels))
            => /\ res'[t][i].pc = "awaitCreate"
               /\ res'[t][i].reqs =
                    Append(res[t][i].reqs,
                           Request("CREATE_ISSUE_LABELS",
                                   [input |-> [name |-> "agent", teamId |-> res[t][i].teamId,
                                               description |-> "Automation"]]))
         /\ (res[t][i].pc = "awaitCreate" /\ res'[t][i].pc = "done")
            => /\ res'[t][i].reqs = res[t][i].reqs
               /\ Cardinality(Sent(res[t][i].reqs, "CREATE_ISSUE_LABELS")) = 1
               /\ (res'[t][i].result.status = "resolved" /\ IsLabel(res'[t][i].result.value))
                  => LET newLabel == res'[t][i].result.value IN
                       /\ IsMarker(newLabel)
                       /\ newLabel.team = res[t][i].teamId
                       /\ Holds(remoteLabels', newLabel) /\ ~Holds(remoteLabels, newLabel)
                       /\ agentLabelCache'[res[t][i].teamId] = newLabel
                       /\ call[t].op = "createOrGetAgentLabel"
                          => /\ call'[t].pc = "done"
                             /\ call'[t].result = Resolved(newLabel)]_vars

(* A non-forced createOrGetAgentLabel call has listed the labels, created
   the label and returned it, and the map holds it. *)
C5_Witness ==
    \E t \in Tasks :
        /\ call[t].pc = "done" /\ call[t].op = "createOrGetAgentLabel"
        /\ ~res[t][1].forceRefresh
        /\ Len(res[t][1].reqs) = 2
        /\ res[t][1].reqs[2].doc = "CREATE_ISSUE_LABELS"
        /\ call[t].result.status = "resolved"
        /\ IsLabel(call[t].result.value)
        /\ agentLabelCache[res[t][1].teamId] = call[t].result.value
        /\ Holds(remoteLabels, call[t].result.value)

(* C6: of two createOrGetAgentLabel calls for one team made one after the
   other without forceRefresh, the first returning a label, the second sends
   nothing and returns that label; the first listed the labels at most once
   and created at most one label.  SpecLabelSeq. *)
C6_SecondCallIsMemoized ==
    \A t \in Tasks :
        (/\ last[t] # NoEntry
         /\ call[t].pc # "idle"
         /\ ~last[t].res[1].forceRefresh
         /\ ~res[t][1].forceRefresh
         /\ last[t].res[1].teamId = res[t][1].teamId
         /\ last[t].call.result.status = "resolved"
         /\ IsLabel(last[t].call.result.value))
        => /\ call[t].pc = "done"
           /\ res[t][1].reqs = <<>>
           /\ call[t].result = last[t].call.result
           /\ Cardinality(Sent(last[t].res[1].reqs, "GET_ISSUE_LABELS_QUERY")) <= 1
           /\ Cardinality(Sent(last[t].res[1].reqs, "CREATE_ISSUE_LABELS")) <= 1

(* The second of two such calls has settled; the first had listed the labels
   and created the label, which has since been deleted remotely. *)
C6_Witness ==
    \E t \in Tasks :
        /\ last[t] # NoEntry
        /\ call[t].pc = "done"
        /\ ~last[t].res[1].forceRefresh
        /\ ~res[t][1].forceRefresh
        /\ last[t].res[1].teamId = res[t][1].teamId
        /\ Len(last[t].res[1].reqs) = 2
        /\ last[t].call.result.status = "resolved"
        /\ IsLabel(last[t].call.result.value)
        /\ call[t].result = last[t].call.result
        /\ ~Holds(remoteLabels, call[t].result.value)

(* C7: the resolutions of one createIssues call send at most one
   create-label mutation per team.  SpecLabel. *)
C7_OneCreatePerTeam ==
    \A t \in Tasks, team \in Teams :
        Cardinality({ i \in IssueSlots :
                        /\ res[t][i].pc # "idle"
                        /\ res[t][i].teamId = team
                        /\ Sent(res[t][i].reqs, "CREATE_ISSUE_LABELS") # {} }) <= 1

(* C8: the create-issue mutation of createIssue(input) carries the caller's
   labelIds followed by the id of the label resolved, without forceRefresh,
   for input.teamId.  SpecLabel. *)
C8_CreateIssueAppendsMarkerLast ==
    \A t \in Tasks :
        (call[t].pc # "idle" /\ call[t].op = "createIssue" /\ call[t].reqs # <<>>)
        => LET r == res[t][1]
               input == call[t].supplied[1]
           IN /\ r.pc = "done"
              /\ r.result.status = "resolved"
              /\ r.teamId = input.teamId
              /\ ~r.forceRefresh
              /\ agentLabelCache[input.teamId] = r.result.value
              /\ call[t].reqs =
                   <<Request("CREATE_ISSUE_MUTATION",
                             [input |-> [teamId |-> input.teamId,
                                         labelIds |-> input.labelIds \o <<r.result.value.id>>]])>>

(* createIssue was given one label id, created the marker label and has sent
   the mutation. *)
C8_Witness ==
    \E t \in Tasks :
        /\ call[t].pc = "awaitMutation" /\ call[t].op = "createIssue"
        /\ call[t].supplied[1].labelIds = <<1>>
        /\ Len(res[t][1].reqs) = 2
        /\ Len(call[t].reqs[1].variables.input.labelIds) = 2

(* The ids of the labels named "agent" that the service or the map holds. *)
MarkerIds ==
    { remoteLabels[j].id : j \in { j \in 1..Len(remoteLabels) : IsMarker(remoteLabels[j]) } }
      \cup { agentLabelCache[team].id : team \in { x \in Teams : IsLabel(agentLabelCache[x]) } }

SentIssues(request) ==
    IF request.doc = "CREATE_ISSUE_MUTATION" THEN <<request.variables.input>>
    ELSE IF request.doc = "CREATE_BATCH_ISSUES" THEN request.variables.input.issues
    ELSE <<>>

(* C9: every issue in a create-issue or batch-create mutation that has been
   sent has the id of a marker label among its labelIds.  SpecProject. *)
C9_EverySentIssueIsTagged ==
    \A t \in Tasks :
        call[t].pc # "idle"
        => \A k \in 1..Len(call[t].reqs) :
             LET issues == SentIssues(call[t].reqs[k]) IN
               \A i \in 1..Len(issues) :
                 \E j \in 1..Len(issues[i].labelIds) : issues[i].labelIds[j] \in MarkerIds

(* C10: the batch mutation of createIssues(issues) carries, for every issue,
   the caller's labelIds followed by the id of the label resolved by that
   issue's own resolution, which was made for that issue's teamId.  SpecLabel. *)
C10_BatchCarriesEachTeamsMarker ==
    \A t \in Tasks :
        (call[t].pc # "idle" /\ call[t].op = "createIssues" /\ call[t].reqs # <<>>)
        => LET issues == call[t].supplied IN
             /\ \A i \in 1..Len(issues) :
                  /\ res[t][i].pc = "done"
                  /\ res[t][i].result.status = "resolved"
                  /\ res[t][i].teamId = issues[i].teamId
             /\ Len(call[t].reqs) = 1
             /\ call[t].reqs[1].doc = "CREATE_BATCH_ISSUES"
             /\ LET sent == call[t].reqs[1].variables.input.issues IN
                  /\ Len(sent) = Len(issues)
                  /\ \A i \in 1..Len(issues) :
                       /\ sent[i].teamId = issues[i].teamId
                       /\ sent[i].labelIds =
                            issues[i].labelIds \o <<res[t][i].result.value.id>>

(* A batch of two issues of different teams has been sent, each issue with
   the label created for its own team. *)
C10_Witness ==
    \E t \in Tasks :
        /\ call[t].pc = "awaitMutation" /\ call[t].op = "createIssues"
        /\ Len(call[t].supplied) = 2
        /\ call[t].supplied[1].teamId # call[t].supplied[2].teamId
        /\ \A i \in 1..2 : res[t][i].result.value.team = call[t].supplied[i].teamId
        /\ res[t][1].result.value.id # res[t][2].result.value.id

(* C11: when the label resolution of any issue of a createIssues call has
   rejected, the call has rejected and has sent no batch-create mutation,
   whatever the other resolutions do and whenever they settle.  SpecLabel. *)
C11_RejectedResolutionAbortsBatch ==
    \A t \in Tasks :
        (/\ call[t].pc # "idle" /\ call[t].op = "createIssues"
         /\ \E i \in 1..Len(call[t].issues) :
               res[t][i].pc = "done" /\ res[t][i].result.status = "rejected")
        => /\ call[t].pc = "done"
           /\ call[t].result.status = "rejected"
           /\ call[t].reqs = <<>>

(* In a batch of two issues the resolution of the second has rejected first,
   and the resolution of the first has then gone on to create its label. *)
C11_Witness ==
    \E t \in Tasks :
        /\ call[t].pc = "done" /\ call[t].op = "createIssues"
        /\ Len(call[t].issues) = 2
        /\ res[t][2].pc = "done" /\ res[t][2].result.status = "rejected"
        /\ res[t][1].pc = "done" /\ res[t][1].result.status = "resolved"
        /\ Len(res[t][1].reqs) = 2
        /\ call[t].result = res[t][2].result
        /\ call[t].reqs = <<>>

----------------------------------------------------------------------------
(* createProjectWithIssues, checked under SpecProject *)

IsComposite(t) == call[t].pc # "idle" /\ call[t].op = "createProjectWithIssues"

(* C12: when the create-project payload's success flag is false, the call
   has rejected with an Error 'Failed to create project' and the only
   request it has sent is the create-project mutation. *)
C12_FailedProjectStopsTheCall ==
    \A t \in Tasks :
        (/\ IsComposite(t)
         /\ call[t].projectResult # NoEntry
         /\ ~call[t].projectResult.projectCreate.success)
        => /\ call[t].pc = "done"
           /\ call[t].result =
                Rejected([isError |-> TRUE, message |-> <<"Failed to create project">>])
           /\ Len(call[t].reqs) = 1
           /\ call[t].reqs[1].doc = "CREATE_PROJECT"

(* A call with two issues has received a create-project payload with
   success false and has rejected. *)
C12_Witness ==
    \E t \in Tasks :
        /\ IsComposite(t)
        /\ Len(call[t].supplied) = 2
        /\ call[t].projectResult # NoEntry
        /\ ~call[t].projectResult.projectCreate.success
        /\ call[t].result.status = "rejected"

(* C13: once the project has been created, the batch mutation that was sent
   carries every issue with projectId equal to the id of the project created
   in this call; when the batch payload's success flag is false the call
   rejects with an Error 'Failed to create issues', which is not the
   project-creation error. *)
C13_FailedBatchAfterStamping ==
    \A t \in Tasks :
        (/\ IsComposite(t)
         /\ call[t].projectResult # NoEntry
         /\ call[t].projectResult.projectCreate.success)
        => /\ Len(call[t].reqs) = 2
           /\ call[t].reqs[2].doc = "CREATE_BATCH_ISSUES"
           /\ LET sent == call[t].reqs[2].variables.input.issues IN
                /\ Len(sent) = Len(call[t].supplied)
                /\ \A i \in 1..Len(sent) :
                     /\ sent[i].projectId = call[t].projectResult.projectCreate.project.id
                     /\ sent[i].teamId = call[t].supplied[i].teamId
                     /\ sent[i].labelIds = call[t].supplied[i].labelIds
           /\ (call[t].issuesResult # NoEntry
                /\ ~call[t].issuesResult.issueBatchCreate.success)
              => /\ call[t].pc = "done"
                 /\ call[t].result =
                      Rejected([isError |-> TRUE, message |-> <<"Failed to create issues">>])
                 /\ call[t].result #
                      Rejected([isError |-> TRUE, message |-> <<"Failed to create project">>])

(* The batch of a call whose issues named another project has been answered
   with success false. *)
C13_Witness ==
    \E t \in Tasks :
        /\ IsComposite(t)
        /\ call[t].pc = "done"
        /\ call[t].projectResult # NoEntry
        /\ call[t].projectResult.projectCreate.success
        /\ call[t].issuesResult # NoEntry
        /\ ~call[t].issuesResult.issueBatchCreate.success
        /\ \E i \in 1..Len(call[t].supplied) : call[t].supplied[i].projectId = "P0"
        /\ call[t].result.status = "rejected"

(* C14: a createProjectWithIssues call sends the create-project mutation
   once, as its first request, and at most one batch-create mutation, which
   it sends only when it holds the project payload; nothing else and nothing
   twice. *)
C14_OneProjectThenAtMostOneBatch ==
    \A t \in Tasks :
        IsComposite(t)
        => /\ Cardinality(Sent(call[t].reqs, "CREATE_PROJECT")) = 1
           /\ call[t].reqs[1].doc = "CREATE_PROJECT"
           /\ Cardinality(Sent(call[t].reqs, "CREATE_BATCH_ISSUES")) <= 1
           /\ Len(call[t].reqs) <= 2
           /\ Sent(call[t].reqs, "CREATE_BATCH_ISSUES") # {}
              => /\ call[t].projectResult # NoEntry
                 /\ call[t].reqs[2].doc = "CREATE_BATCH_ISSUES"
           /\ call[t].pc = "awaitProject" => Len(call[t].reqs) = 1

(* A call has sent both mutations and its batch request has failed in
   transport: the call is over with those two requests. *)
C14_Witness ==
    \E t \in Tasks :
        /\ IsComposite(t)
        /\ call[t].pc = "done"
        /\ Len(call[t].reqs) = 2
        /\ call[t].issuesResult = NoEntry
        /\ call[t].result = Rejected(executeCatch(NetworkError))

----------------------------------------------------------------------------
(* searchIssues, checked under SpecSearch *)

(* The filter key each optional field of the input is mapped to. *)
FilterKey(field) ==
    CASE field = "query" -> "search"
      [] field = "ids" -> "id"
      [] field = "projectId" -> "project"
      [] field = "teamIds" -> "team"
      [] field = "assigneeIds" -> "assignee"
      [] field = "stateIds" -> "state"
      [] field = "labelIds" -> "labels"
      [] field = "priority" -> "priority"

SearchFields ==
    {"query", "ids", "projectId", "teamIds", "assigneeIds", "stateIds", "labelIds", "priority"}

(* C15: the filter sent by searchIssues has the key of an optional field
   exactly when the input has that field, and no other key. *)
C15_FilterClauseIffFieldPresent ==
    \A t \in Tasks :
        (call[t].pc # "idle" /\ call[t].op = "searchIssues")
        => LET filter == call[t].reqs[1].variables.filter IN
             /\ DOMAIN filter \subseteq { FilterKey(field) : field \in SearchFields }
             /\ \A field \in SearchFields :
                  (call[t].args[field] # Undefined) <=> (FilterKey(field) \in DOMAIN filter)

----------------------------------------------------------------------------
(* execute, checked under SpecExecute *)

IsExecute(t) == call[t].pc # "idle" /\ call[t].op = "execute"

(* C16: an execute call sends one rawRequest, no second one after a
   failure, and returns the data field of the response it received, whatever
   else the response holds and whatever other execute call is in flight; it
   leaves the cache and the label map as they were. *)
C16_OneRequestAndDataVerbatim ==
    /\ \A t \in Tasks :
         IsExecute(t)
         => /\ Len(call[t].reqs) = 1
            /\ call[t].response # NoEntry
               => /\ call[t].pc = "done"
                  /\ call[t].result = [status |-> "resolved", value |-> call[t].response.data]
            /\ call[t].pc = "awaitRaw"
               => call[t].response = NoEntry /\ call[t].thrown = NoEntry
    /\ cache = [k \in Kinds |-> NoEntry]
    /\ agentLabelCache = [team \in Teams |-> NoEntry]

(* Two execute calls have received different responses, both with
   extensions, and each has returned the data of its own. *)
C16_Witness ==
    \E t, u \in Tasks :
        /\ t # u /\ IsExecute(t) /\ IsExecute(u)
        /\ call[t].response # NoEntry /\ call[u].response # NoEntry
        /\ call[t].response.extensions # NoEntry
        /\ call[t].response.data # call[u].response.data
        /\ call[t].result.value = call[t].response.data
        /\ call[u].result.value = call[u].response.data

(* C17: when rawRequest threw an Error, execute rejects with an Error whose
   message is "GraphQL operation failed: " followed by the message of the
   Error thrown; when it threw something else, execute rejects with that
   value. *)
C17_ErrorsWrappedOthersRethrown ==
    \A t \in Tasks :
        (IsExecute(t) /\ call[t].thrown # NoEntry)
        => /\ call[t].pc = "done"
           /\ call[t].result.status = "rejected"
           /\ call[t].thrown.isError
              => /\ call[t].result.error.isError
                 /\ call[t].result.error.message =
                      <<"GraphQL operation failed: ">> \o call[t].thrown.message
           /\ ~call[t].thrown.isError
              => call[t].result.error = call[t].thrown

(* One execute call has rejected with the wrapped Error, another with the
   value that was thrown. *)
C17_Witness ==
    \E t, u \in Tasks :
        /\ IsExecute(t) /\ IsExecute(u)
        /\ call[t].thrown = NetworkError
        /\ call[t].result.error.message = <<"GraphQL operation failed: ", "network">>
        /\ call[u].thrown = ThrownValue
        /\ call[u].result.error = ThrownValue

----------------------------------------------------------------------------
(* The create-label mutation that reports failure, checked under SpecLabelSeq *)

(* C18: when the create-label mutation of a createOrGetAgentLabel call is
   answered with success false, the call rejects and the step leaves the
   Agent-Label Map as it was (the call has not written it before: it writes
   the map only as its last step). *)
C18_FailedCreateRejectsAndKeepsMap ==
    [][\A t \in Tasks :
         (/\ call[t].op = "createOrGetAgentLabel"
          /\ res[t][1].pc = "awaitCreate"
          /\ res'[t][1].pc = "done"
          /\ res'[t][1].createdLabel # NoEntry
          /\ ~res'[t][1].createdLabel.issueLabelCreate.success)
         => /\ call'[t].pc = "done"
            /\ call'[t].result.status = "rejected"
            /\ agentLabelCache' = agentLabelCache]_vars

----------------------------------------------------------------------------
(* The single-call wrappers, checked under SpecWrappers *)

Wrappers ==
    {"createIssue", "createIssues", "createProject", "createBatchIssues",
     "updateIssue", "updateIssues", "deleteIssue"}

(* C19: a single-call wrapper whose mutation has been answered has resolved
   with the payload received, whatever its success flag; a
   createProjectWithIssues call that received a payload with success false,
   from either of its mutations, has rejected. *)
C19_WrappersReturnPayloadVerbatim ==
    \A t \in Tasks :
        /\ (call[t].pc # "idle" /\ call[t].op \in Wrappers /\ call[t].response # NoEntry)
           => /\ call[t].pc = "done"
              /\ call[t].result = [status |-> "resolved", value |-> call[t].response.data]
        /\ (/\ IsComposite(t)
            /\ \/ /\ call[t].projectResult # NoEntry
                  /\ ~call[t].projectResult.projectCreate.success
               \/ /\ call[t].issuesResult # NoEntry
                  /\ ~call[t].issuesResult.issueBatchCreate.success)
           => call[t].result.status = "rejected"

(* createIssues has created its label and sent its batch, and has resolved
   with a payload whose success flag is false. *)
C19_Witness ==
    \E t \in Tasks :
        /\ call[t].pc = "done" /\ call[t].op = "createIssues"
        /\ call[t].response # NoEntry
        /\ ~call[t].response.data.success
        /\ call[t].result.status = "resolved"
        /\ ~call[t].result.value.success

----------------------------------------------------------------------------
(* The two cached kinds, checked under SpecKinds *)

(* The step belongs to a call of caller t to one of the operations ops. *)
StepOf(t, ops) ==
    /\ call'[t] # call[t] \/ res'[t] # res[t]
    /\ call[t].op \in ops \/ call'[t].op \in ops

(* C20: no step of a getStates call changes the labels entry, and no step
   of a getLabels call or of a createOrGetAgentLabel call, whose getLabels
   is forced, changes the states entry. *)
C20_KindsAreIndependent ==
    [][\A t \in Tasks :
         /\ StepOf(t, {"getStates"}) => cache'["labels"] = cache["labels"]
         /\ StepOf(t, {"getLabels", "createOrGetAgentLabel"})
            => cache'["states"] = cache["states"]]_vars

(* createOrGetAgentLabel has listed the labels after the states entry was
   stored; the states entry is still the older one, which the service's
   states have moved away from. *)
C20_Witness ==
    \E t \in Tasks :
        /\ call[t].pc = "done" /\ call[t].op = "createOrGetAgentLabel"
        /\ res[t][1].reqs # <<>>
        /\ cache["states"] # NoEntry /\ cache["labels"] # NoEntry
        /\ cache["labels"].timestamp = res[t][1].now
        /\ cache["labels"].timestamp > cache["states"].timestamp
        /\ cache["states"].data.workflowStates # remoteStates

----------------------------------------------------------------------------
(* What createOrGetAgentLabel returns, checked under SpecLabelSeq *)

(* A createOrGetAgentLabel call of caller t has resolved. *)
ResolverResolved(t) ==
    /\ call[t].pc = "done" /\ call[t].op = "createOrGetAgentLabel"
    /\ call[t].result.status = "resolved"

(* C21: the label a createOrGetAgentLabel(teamId) call resolves with
   belongs to teamId, and so does every label stored in the Agent-Label
   Map under a team, also when the service lists a label named "agent" of
   another team. *)
C21_MarkerBelongsToItsTeam ==
    /\ \A t \in Tasks :
         (ResolverResolved(t) /\ IsLabel(call[t].result.value))
         => call[t].result.value.team = res[t][1].teamId
    /\ \A team \in Teams :
         IsLabel(agentLabelCache[team]) => agentLabelCache[team].team = team

(* C22: whenever a createOrGetAgentLabel call resolves, forced or not, its
   result is a Label named "agent". *)
C22_ResolvesWithMarkerLabel ==
    \A t \in Tasks :
        ResolverResolved(t)
        => /\ IsLabel(call[t].result.value)
           /\ call[t].result.value.name = "agent"

----------------------------------------------------------------------------
(* Pagination, checked under SpecPaging *)

(* C23: the variables of the search query carry the first, after and
   orderBy the caller supplied, whether the caller is a client of
   searchIssues or handleSearchIssues; 50 and "updatedAt" stand in only for
   a first or an orderBy that was not supplied. *)
C23_PaginationPassedThrough ==
    \A t \in Tasks :
        (call[t].pc # "idle" /\ call[t].op = "searchIssues")
        => LET variables == call[t].reqs[1].variables
               supplied == call[t].supplied
           IN /\ variables.first =
                   IF supplied.first = Undefined THEN Num(50) ELSE supplied.first
              /\ variables.after = supplied.after
              /\ variables.orderBy =
                   IF supplied.orderBy = Undefined THEN Str("updatedAt")
                   ELSE supplied.orderBy

----------------------------------------------------------------------------
(* The fan-in of createIssues, checked under SpecLabel *)

Last(seq) == seq[Len(seq)]

(* C24: when a createIssues call has sent its batch mutation, no label
   resolution of the call is in flight: the resolution of every issue has
   resolved with a label, whose id is the last of that issue's labelIds in
   the mutation. *)
C24_BatchAfterAllResolutions ==
    \A t \in Tasks :
        (/\ call[t].pc # "idle" /\ call[t].op = "createIssues"
         /\ Sent(call[t].reqs, "CREATE_BATCH_ISSUES") # {})
        => /\ \A i \in IssueSlots : res[t][i].pc \in {"idle", "done"}
           /\ \A i \in 1..Len(call[t].supplied) :
                /\ res[t][i].pc = "done"
                /\ res[t][i].result.status = "resolved"
                /\ IsLabel(res[t][i].result.value)
                /\ Last(call[t].reqs[1].variables.input.issues[i].labelIds)
                     = res[t][i].result.value.id

(* A batch of two issues of one team has been sent after both resolutions
   listed the labels and one of them created the label. *)
C24_Witness ==
    \E t \in Tasks :
        /\ call[t].pc = "awaitMutation" /\ call[t].op = "createIssues"
        /\ Len(call[t].supplied) = 2
        /\ call[t].supplied[1].teamId = call[t].supplied[2].teamId
        /\ res[t][1].reqs # <<>> /\ res[t][2].reqs # <<>>
        /\ Len(res[t][1].reqs) + Len(res[t][2].reqs) = 3

----------------------------------------------------------------------------
(* Concurrent calls of the cache accessors, checked under SpecRace *)

(* C25: a getStates/getLabels call that does not find a usable entry sends
   its own request, also while another call of the same kind is waiting for
   its response; no call ever has more than one request, none is added when
   the call settles, and a call whose request succeeds returns the data of
   that request. *)
C25_ConcurrentFetchesNotShared ==
    [][\A t \in Tasks :
         /\ Calls(t)
            => LET k == KindOf(call'[t].op) IN
                 /\ Len(call'[t].reqs) <= 1
                 /\ (\/ call'[t].forceRefresh
                     \/ cache[k] = NoEntry
                     \/ now - cache[k].timestamp >= cacheExpirationTime)
                    => /\ call'[t].pc = "await"
                       /\ call'[t].reqs = <<Request(QueryOf(k), NoVars)>>
         /\ Settles(t)
            => /\ call'[t].reqs = call[t].reqs
               /\ call'[t].transport = "ok"
                  => call'[t].result = Resolved(RemoteData(KindOf(call[t].op)))
         /\ (call[t].pc = "done" /\ call[t].op \in GetOps /\ call'[t].pc = "done")
            => call'[t].reqs = call[t].reqs]_vars

(* Two calls of one kind found the same expired entry, each sent a request,
   and they have returned different data. *)
C25_Witness ==
    \E t, u \in Tasks :
        /\ t # u
        /\ call[t].pc = "done" /\ call[u].pc = "done"
        /\ call[t].op \in GetOps /\ call[u].op = call[t].op
        /\ ~call[t].forceRefresh /\ ~call[u].forceRefresh
        /\ call[t].prior # NoEntry /\ call[u].prior = call[t].prior
        /\ call[t].now - call[t].prior.timestamp >= cacheExpirationTime
        /\ Len(call[t].reqs) = 1 /\ Len(call[u].reqs) = 1
        /\ call[t].result.status = "resolved" /\ call[u].result.status = "resolved"
        /\ call[t].result # call[u].result

----------------------------------------------------------------------------
(* The Agent-Label Map as a permanent memo, checked under SpecLabelSeq *)

(* The step is the start of a createOrGetAgentLabel call of caller t. *)
ResolverCalls(t) ==
    call[t].pc = "idle" /\ call'[t].pc # "idle" /\ call'[t].op = "createOrGetAgentLabel"

(* C26: a team that has an entry in the Agent-Label Map has one in every
   later state, and a createOrGetAgentLabel call without forceRefresh for a
   team that has an entry returns that entry and sends nothing. *)
C26_MapEntriesArePermanent ==
    [][/\ \A team \in Teams :
            agentLabelCache[team] # NoEntry => agentLabelCache'[team] # NoEntry
       /\ \A t \in Tasks :
            (/\ ResolverCalls(t)
             /\ ~res'[t][1].forceRefresh
             /\ agentLabelCache[res'[t][1].teamId] # NoEntry)
            => /\ call'[t].pc = "done"
               /\ res'[t][1].reqs = <<>>
               /\ call'[t].result = Resolved(agentLabelCache[res'[t][1].teamId])
               /\ agentLabelCache' = agentLabelCache]_vars

----------------------------------------------------------------------------
(* The resolver's label listing, checked under SpecKinds *)

LabelsQuery == Request("GET_ISSUE_LABELS_QUERY", NoVars)

(* C27: a createOrGetAgentLabel call that is forced or finds no entry for
   its team sends the label-listing query, once, whatever the labels cache
   entry; when the listing arrives the labels cache entry is replaced by it. *)
C27_ResolverAlwaysListsLabels ==
    [][\A t \in Tasks :
         /\ (/\ ResolverCalls(t)
             /\ \/ res'[t][1].forceRefresh
                \/ agentLabelCache[res'[t][1].teamId] = NoEntry)
            => /\ res'[t][1].pc = "awaitLabels"
               /\ res'[t][1].reqs = <<LabelsQuery>>
               /\ cache' = cache
         /\ (/\ call[t].op = "createOrGetAgentLabel"
             /\ res[t][1].pc = "awaitLabels"
             /\ res'[t][1].pc # "awaitLabels")
            => /\ Cardinality(Sent(res'[t][1].reqs, "GET_ISSUE_LABELS_QUERY")) = 1
               /\ ~(res'[t][1].pc = "done" /\ res'[t][1].result.status = "rejected")
                  => cache'["labels"] =
                       [data |-> RemoteData("labels"), timestamp |-> res[t][1].now]]_vars

(* A createOrGetAgentLabel call is waiting for its label listing while the
   labels cache holds an entry that was not expired when the call started. *)
C27_Witness ==
    \E t \in Tasks :
        /\ call[t].pc # "idle" /\ call[t].op = "createOrGetAgentLabel"
        /\ res[t][1].pc = "awaitLabels"
        /\ res[t][1].reqs = <<LabelsQuery>>
        /\ cache["labels"] # NoEntry
        /\ res[t][1].now > cache["labels"].timestamp
        /\ res[t][1].now - cache["labels"].timestamp < cacheExpirationTime

----------------------------------------------------------------------------
(* The memoized label and the remote labels, checked under SpecLabelDrift *)

(* C28: a createOrGetAgentLabel call without forceRefresh for a team whose
   map entry is a label returns that label and leaves the map alone,
   whatever the service holds by now; a call with forceRefresh lists the
   labels, and when it resolves with a label, that label is the one the
   listing holds under the marker name, or one the service has just created,
   and it is the team's new map entry. *)
C28_MemoStaleUntilForced ==
    [][\A t \in Tasks :
         /\ (/\ ResolverCalls(t)
             /\ ~res'[t][1].forceRefresh
             /\ IsLabel(agentLabelCache[res'[t][1].teamId]))
            => /\ call'[t].pc = "done"
               /\ call'[t].result = Resolved(agentLabelCache[res'[t][1].teamId])
               /\ agentLabelCache' = agentLabelCache
         /\ (ResolverCalls(t) /\ res'[t][1].forceRefresh)
            => /\ res'[t][1].pc = "awaitLabels"
               /\ agentLabelCache' = agentLabelCache
         /\ (/\ call[t].op = "createOrGetAgentLabel"
             /\ res[t][1].pc \in {"awaitLabels", "awaitCreate"}
             /\ res[t][1].forceRefresh
             /\ res'[t][1].pc = "done"
             /\ res'[t][1].result.status = "resolved"
             /\ IsLabel(res'[t][1].result.value))
            => LET label == res'[t][1].result.value IN
                 /\ agentLabelCache'[res[t][1].teamId] = label
                 /\ call'[t].result = Resolved(label)
                 /\ Holds(remoteLabels', label)
                 /\ res[t][1].pc = "awaitLabels" => label = FindLabel(remoteLabels)
                 /\ res[t][1].pc = "awaitCreate" => ~Holds(remoteLabels, label)]_vars

(* A call without forceRefresh returned the memoized label from the map;
   that label is no longer among the service's labels, and the next call,
   with forceRefresh, has put another label in its place. *)
C28_Witness ==
    \E t \in Tasks :
        /\ last[t] # NoEntry
        /\ ~last[t].res[1].forceRefresh
        /\ last[t].res[1].reqs = <<>>
        /\ last[t].call.result.status = "resolved"
        /\ call[t].pc = "done" /\ call[t].op = "createOrGetAgentLabel"
        /\ res[t][1].forceRefresh
        /\ res[t][1].teamId = last[t].res[1].teamId
        /\ call[t].result.status = "resolved"
        /\ IsLabel(call[t].result.value)
        /\ call[t].result.value # last[t].call.result.value
        /\ \E i \in 1..Len(remoteLabels) :
             /\ remoteLabels[i].id = last[t].call.result.value.id
             /\ remoteLabels[i].name = "renamed"
        /\ agentLabelCache[res[t][1].teamId] = call[t].result.value

----------------------------------------------------------------------------
(* Two instances, checked under SpecInstances *)

(* C29: no step of a call changes the cache entries or the Agent-Label Map
   of the instance the call does not run on, passing from one instance to
   the other changes the fields of neither, and a call on an instance none
   of whose fields has been written sends a request and is not answered
   from the cache or the map, whatever the other instance holds. *)
C29_InstancesShareNoState ==
    [][/\ \A t \in Tasks :
            (call'[t] # call[t] \/ res'[t] # res[t])
            => InstanceState(Other(InstanceOf(t)))' = InstanceState(Other(InstanceOf(t)))
       /\ \A i \in Instances :
            this' # this => InstanceState(i)' = InstanceState(i)
       /\ \A t \in Tasks :
            (/\ call[t].pc = "idle" /\ call'[t].pc # "idle"
             /\ InstanceState(InstanceOf(t)) = NewInstance)
            => /\ call'[t].pc # "done"
               /\ call'[t].reqs # <<>> \/ res'[t][1].reqs # <<>>]_vars

(* Instance A holds a states entry young enough to be used and a label for
   T1; the first getStates call on instance B, which holds nothing, has
   sent the states query. *)
C29_Witness ==
    /\ InstanceState("A").cache["states"] # NoEntry
    /\ CacheUsable(InstanceState("A").cache["states"], FALSE, now)
    /\ IsLabel(InstanceState("A").agentLabelCache["T1"])
    /\ InstanceState("B") = NewInstance
    /\ call["b"].pc = "await" /\ call["b"].op = "getStates"
    /\ ~call["b"].forceRefresh
    /\ call["b"].reqs = <<Request(QueryOf("states"), NoVars)>>

----------------------------------------------------------------------------
(* Termination and hung transport calls, checked under SpecLive *)

InProgress(t) == call[t].pc \notin {"idle", "done"}

(* The transport calls of caller t that have not returned. *)
Outstanding(t) ==
    Cardinality({ i \in IssueSlots : res[t][i].pc \in {"awaitLabels", "awaitCreate"} })
      + (IF call[t].pc \in {"await", "awaitMutation", "awaitProject", "awaitBatch"}
         THEN 1 ELSE 0)

(* The requests caller t has sent in its call. *)
TotalSent(t) ==
    Len(call[t].reqs)
      + (IF res[t][1].pc = "idle" THEN 0 ELSE Len(res[t][1].reqs))
      + (IF res[t][2].pc = "idle" THEN 0 ELSE Len(res[t][2].reqs))

(* Promise.all has resolved and its continuation has not run yet. *)
FanInReady(t) ==
    /\ call[t].op = "createIssues" /\ call[t].pc = "resolving"
    /\ \A i \in 1..Len(call[t].issues) : res[t][i].pc = "done"

EventuallySettles == \A t \in LabelTasks : InProgress(t) ~> (call[t].pc = "done")

(* C30 as stated: every call that is in progress settles; a call that has
   settled has no transport call that has not returned, and a call in
   progress sends a request only when no other transport call of its is
   still out. *)
C30_SettlesIffTransportReturns ==
    /\ EventuallySettles
    /\ [](\A t \in LabelTasks : call[t].pc = "done" => Outstanding(t) = 0)
    /\ [][\A t \in LabelTasks :
            (InProgress(t) /\ TotalSent(t)' > TotalSent(t)) => Outstanding(t)' = 1]_vars

(* C30 amended: every call that is in progress settles; a call in progress
   is waiting for a transport call to return, or for the continuation of
   its settled Promise.all; a call does not resolve while a transport call
   of its is out, and rejects while one is out only as createIssues, one of
   whose callbacks has rejected; a label resolution sends its next request
   in the step its own transport call returns, and the call itself sends a
   request only when none of its transport calls is out. *)
C30_SettlesAndWaitsForTransport ==
    /\ EventuallySettles
    /\ [](\A t \in LabelTasks :
            /\ InProgress(t) => (Outstanding(t) >= 1 \/ FanInReady(t))
            /\ (call[t].pc = "done" /\ Outstanding(t) > 0)
               => /\ call[t].op = "createIssues"
                  /\ call[t].result.status = "rejected"
                  /\ \E i \in 1..Len(call[t].issues) :
                       /\ res[t][i].pc = "done"
                       /\ \/ res[t][i].result = call[t].result
                          \/ /\ res[t][i].result = Resolved(NullLabel)
                             /\ call[t].result = Rejected(TypeError))
    /\ [][\A t \in LabelTasks :
            /\ (InProgress(t) /\ Len(call[t].reqs)' > Len(call[t].reqs))
               => Outstanding(t)' = 1
            /\ \A i \in IssueSlots :
                 (InProgress(t) /\ res[t][i].pc # "idle"
                   /\ Len(res[t][i].reqs)' > Len(res[t][i].reqs))
                 => /\ res[t][i].pc = "awaitLabels" /\ res'[t][i].pc = "awaitCreate"
                    /\ Outstanding(t)' = Outstanding(t)]_vars

(* A createIssues call of two issues has sent its batch mutation after both
   label listings and a create-label mutation returned, and has resolved. *)
C30_Witness ==
    \E t \in LabelTasks :
        /\ call[t].op = "createIssues" /\ call[t].pc = "done"
        /\ call[t].result.status = "resolved"
        /\ Len(call[t].issues) = 2
        /\ Len(call[t].reqs) = 1
        /\ Len(res[t][1].reqs) + Len(res[t][2].reqs) >= 3
        /\ Outstanding(t) = 0

----------------------------------------------------------------------------
(* The order of concurrent refreshes, checked under SpecRace *)

(* C31: with getStates (or getLabels) calls of two callers interleaved, the
   timestamp of a stored entry never decreases, and the call whose response
   replaces an entry did not start before the call whose response the entry
   holds. *)
C31_EntryNeverGoesBack ==
    [][\A kind \in Kinds :
         /\ cache[kind] # NoEntry
            => /\ cache'[kind] # NoEntry
               /\ cache'[kind].timestamp >= cache[kind].timestamp
         /\ \A t \in Tasks :
              (/\ call[t].pc = "await" /\ call[t].op = OpOf(kind)
               /\ call'[t].pc = "done" /\ call'[t].result.status = "resolved"
               /\ cache[kind] # NoEntry)
              => call[t].now >= cache[kind].timestamp]_vars

----------------------------------------------------------------------------
(* Issues of one team in one batch, checked under SpecLabel *)

(* C32: in the batch mutation of a createIssues call, issues with the same
   teamId carry the same marker label id, and when the call has settled that
   id is the id of the team's entry in the Agent-Label Map. *)
C32_SameTeamSameMarker ==
    \A t \in Tasks :
        (call[t].pc # "idle" /\ call[t].op = "createIssues" /\ call[t].reqs # <<>>)
        => LET sent == call[t].reqs[1].variables.input.issues IN
             \A i, j \in 1..Len(sent) :
                 sent[i].teamId = sent[j].teamId
                 => /\ Last(sent[i].labelIds) = Last(sent[j].labelIds)
                    /\ call[t].pc = "done"
                       => /\ IsLabel(agentLabelCache[sent[i].teamId])
                          /\ agentLabelCache[sent[i].teamId].id = Last(sent[i].labelIds)

----------------------------------------------------------------------------
(* The marker id in the labelIds that are sent, checked under SpecReuse *)

(* The number of places of list ids that hold id. *)
Occurrences(ids, id) == Cardinality({ k \in 1..Len(ids) : ids[k] = id })

(* C33: every issue in a create-issue or batch-create mutation sent by
   createIssue or createIssues holds the id of the label resolved for it
   exactly once in its labelIds, whatever labelIds the caller supplied and
   also when the caller passes an object it has passed before. *)
C33_MarkerIdExactlyOnce ==
    \A t \in Tasks :
        (call[t].pc # "idle" /\ call[t].op \in {"createIssue", "createIssues"}
          /\ call[t].reqs # <<>>)
        => LET sent == SentIssues(call[t].reqs[1]) IN
             \A i \in 1..Len(sent) :
                 Occurrences(sent[i].labelIds, res[t][i].result.value.id) = 1

----------------------------------------------------------------------------
(* After the rejection of a createIssues call, checked under SpecLabel *)

(* The createIssues call of t has rejected and the caller has not taken
   the outcome yet. *)
RejectedBatch(t) ==
    /\ call[t].op = "createIssues" /\ call[t].pc = "done"
    /\ call[t].result.status = "rejected"

(* C34: once a createIssues call has rejected, its label resolutions send
   no further request and no step of theirs writes the Agent-Label Map or
   the labels entry of the cache. *)
C34_NothingAfterRejection ==
    [][\A t \in Tasks :
         (RejectedBatch(t) /\ call'[t] = call[t] /\ res'[t] # res[t])
         => /\ \A i \in 1..Len(call[t].issues) :
                 res[t][i].pc # "idle" => res'[t][i].reqs = res[t][i].reqs
            /\ agentLabelCache' = agentLabelCache
            /\ cache'["labels"] = cache["labels"]]_vars


(* C35: when a createIssues call has rejected without sending the batch
   mutation, the caller's issue objects are as the caller supplied them: no
   issue has had an id appended to its labelIds. *)
C35_RejectedBatchLeavesIssues ==
    \A t \in Tasks :
        (RejectedBatch(t) /\ call[t].reqs = <<>>) => call[t].issues = call[t].supplied

----------------------------------------------------------------------------
(* The labels cache after a resolution, checked under SpecAfterResolve *)

(* C36: when a createOrGetAgentLabel call has resolved with a label and the
   caller's next call is a getLabels(false) that starts less than the
   expiration window after that call started, the list getLabels returns
   holds the label. *)
C36_ListHoldsResolvedLabel ==
    \A t \in Tasks :
        (/\ last[t] # NoEntry
         /\ last[t].call.op = "createOrGetAgentLabel"
         /\ last[t].call.result.status = "resolved"
         /\ IsLabel(last[t].call.result.value)
         /\ call[t].op = "getLabels" /\ call[t].pc = "done"
         /\ ~call[t].forceRefresh
         /\ call[t].result.status = "resolved"
         /\ call[t].now - last[t].res[1].now < cacheExpirationTime)
        => Holds(call[t].result.value.issueLabels.nodes, last[t].call.result.value)

----------------------------------------------------------------------------
(* The map entries of other teams, checked under SpecTeams *)

(* The label resolution i of caller t takes a step. *)
ResolverSteps(t, i) ==
    /\ res[t][i].pc \in {"awaitLabels", "awaitCreate"}
    /\ res'[t][i] # res[t][i]

(* C37: a step of a label resolution for a team leaves the Agent-Label Map
   entry of every other team, present or absent, as it was; the start of a
   resolution writes no entry; and an entry changes only in a step of a
   resolution for its own team, whatever other resolutions are in
   progress. *)
C37_OnlyOwnTeamsEntry ==
    [][/\ \A t \in Tasks, i \in IssueSlots :
            ResolverSteps(t, i)
            => \A team \in Teams \ {res[t][i].teamId} :
                   agentLabelCache'[team] = agentLabelCache[team]
       /\ \A t \in Tasks :
            (call[t].pc = "idle" /\ call'[t].pc # "idle")
            => agentLabelCache' = agentLabelCache
       /\ \A team \in Teams :
            agentLabelCache'[team] # agentLabelCache[team]
            => \E t \in Tasks, i \in IssueSlots :
                   ResolverSteps(t, i) /\ res[t][i].teamId = team]_vars

(* Two callers have resolved the labels of the two teams at the same time:
   each created its team's label while the other's resolution was in
   progress, and the map holds both. *)
C37_Witness ==
    /\ call["a"].op = "createOrGetAgentLabel" /\ call["a"].pc = "done"
    /\ call["b"].op = "createOrGetAgentLabel" /\ call["b"].pc = "done"
    /\ res["a"][1].teamId = "T1" /\ res["b"][1].teamId = "T2"
    /\ Len(res["a"][1].reqs) = 2 /\ Len(res["b"][1].reqs) = 2
    /\ IsLabel(agentLabelCache["T1"]) /\ IsLabel(agentLabelCache["T2"])
    /\ agentLabelCache["T1"] = call["a"].result.value
    /\ agentLabelCache["T2"] = call["b"].result.value
    /\ agentLabelCache["T1"].team = "T1" /\ agentLabelCache["T2"].team = "T2"

====
